---- MODULE Spec2Model ----
(***************************************************************************)
(* Model of the claude-sdlc issue-to-request workflow                      *)
(* (sdlc/lib/agent.py, sdlc/lib/gitlab_agent.py, sdlc/lib/gitlab.py,       *)
(* sdlc/commands/gitlab_watcher.py).                                       *)
(*                                                                         *)
(* Text is modelled as a sequence of strings.  Text the code inspects      *)
(* character by character (the classifier's answer) is a sequence of       *)
(* one-character strings; text the code only concatenates or searches for  *)
(* a fixed fragment (comments, errors, status lines) is a sequence of      *)
(* fragments.  None is the one-element sequence <<"None">>, which is no    *)
(* text of either kind.                                                    *)
(***************************************************************************)
EXTENDS Naturals, Integers, Sequences, FiniteSets, TLC

VARIABLES pc, args, command, branch_name, plan_file, result, trace,
          classify_call, issue_comments, worktree, branches, head, commits,
          request, decision, hpc, reply, procs, resolver, invoker, parser, tunnel,
          locator, committer

\* The state of the webhook handlers, of a command resolution and of an
\* agent invocation: no workflow step writes it.  request, decision, hpc and
\* reply are, for each request, the event, the handler's local variables
\* once it has decided, its position and the status object it returned;
\* procs are the processes launched.
env == <<request, decision, hpc, reply, procs, resolver, invoker, parser, tunnel, locator, committer>>

vars == <<pc, args, command, branch_name, plan_file, result, trace,
          classify_call, issue_comments, worktree, branches, head, commits,
          request, decision, hpc, reply, procs, resolver, invoker, parser,
          tunnel, locator, committer>>

----------------------------------------------------------------------------
(* Values *)

None == <<"None">>

\* The background workflow tasks.  Under Spec one event is accepted, so run
\* "r1" is launched and "r2" stays off.
Runs == {"r1", "r2"}

\* The two provider variants of the workflow.
Providers == {"github", "gitlab"}

\* make_adw_id() gives every run its own id.
AdwIdOf == [r \in Runs |-> IF r = "r1" THEN "adw-1a2b3c4d" ELSE "adw-5e6f7a8b"]

FEATURE == <<"/", "f", "e", "a", "t", "u", "r", "e">>
BUG == <<"/", "b", "u", "g">>
CHORE == <<"/", "c", "h", "o", "r", "e">>

\* IssueClassSlashCommand: the three selectors.
Selectors == {FEATURE, BUG, CHORE}

----------------------------------------------------------------------------
(* str.strip() and str.lower() on character sequences *)

IsSpace(c) == c \in {" ", "\n", "\t"}

UpperCase == <<"A", "B", "C", "D", "E", "F", "G", "H", "I", "J", "K", "L", "M",
               "N", "O", "P", "Q", "R", "S", "T", "U", "V", "W", "X", "Y", "Z">>

LowerCase == <<"a", "b", "c", "d", "e", "f", "g", "h", "i", "j", "k", "l", "m",
               "n", "o", "p", "q", "r", "s", "t", "u", "v", "w", "x", "y", "z">>

LowerChar(c) ==
  IF \E i \in 1..Len(UpperCase) : UpperCase[i] = c
  THEN LowerCase[CHOOSE i \in 1..Len(UpperCase) : UpperCase[i] = c]
  ELSE c

lower(s) == [i \in 1..Len(s) |-> LowerChar(s[i])]

RECURSIVE lstrip(_)
lstrip(s) == IF s = <<>> THEN s
             ELSE IF IsSpace(Head(s)) THEN lstrip(Tail(s)) ELSE s

RECURSIVE rstrip(_)
rstrip(s) == IF s = <<>> THEN s
             ELSE IF IsSpace(s[Len(s)]) THEN rstrip(SubSeq(s, 1, Len(s) - 1)) ELSE s

strip(s) == rstrip(lstrip(s))

----------------------------------------------------------------------------
(* The agent invoker seen from the workflow: execute_prompt and            *)
(* execute_slash_command return a response with a success flag and an      *)
(* output; on failure the output is the error detail, which is never       *)
(* empty.                                                                  *)

AgentFailures ==
  { [success |-> FALSE, output |-> <<"Claude command failed with code 1: ", "stderr">>],
    [success |-> FALSE, output |-> <<"Claude command timed out after 600 seconds">>] }

\* Answers the agent may give to the classification prompt.
ClassifyOutputs ==
  { FEATURE, BUG, CHORE,
    <<" ", "/", "B", "u", "g", "\n">>,
    <<"/", "C", "H", "O", "R", "E">>,
    <<"b", "u", "g">>,
    <<"/", "b", "u", "g", " ", "f", "i", "x">>,
    <<"\n">> }

ClassifyResponses ==
  AgentFailures \cup { [success |-> TRUE, output |-> o] : o \in ClassifyOutputs }

\* classify_issue without the lower-casing of the answer.
classify_issue_no_lower(response) ==
  IF ~response.success THEN <<None, response.output>>
  ELSE LET cmd == strip(response.output)
       IN IF cmd \notin Selectors
          THEN <<None, <<"Invalid classification result: ">> \o cmd>>
          ELSE <<cmd, None>>

\* classify_issue / classify_gitlab_issue, given the agent's response:
\* the pair (command, error_message).
classify_issue(response) ==
  IF ~response.success THEN <<None, response.output>>
  ELSE LET cmd == lower(strip(response.output))
       IN IF cmd \notin Selectors
          THEN <<None, <<"Invalid classification result: ">> \o cmd>>
          ELSE <<cmd, None>>

----------------------------------------------------------------------------
(* Issue comments *)

\* The failure and success marks of the comment texts: agent.py writes the
\* glyphs U+274C and U+2705 (here "x-mark " and "check-mark "),
\* gitlab_agent.py writes "Error: " and no mark.
FailMark(p) == IF p = "github" THEN <<"x-mark ">> ELSE <<"Error: ">>

OkMark(p) == IF p = "github" THEN <<"check-mark ">> ELSE <<>>

\* The f-string suffix " (ADW ID: {adw_id})".
AdwTag(r) == <<" (ADW ID: ", args[r].adw_id, ")">>

FailureComment(r, what, error) ==
  [class |-> "failure",
   text |-> FailMark(args[r].provider) \o <<what>> \o error \o AdwTag(r)]

ProgressComment(r, what, value) ==
  [class |-> "progress",
   text |-> OkMark(args[r].provider) \o <<what>> \o value \o AdwTag(r)]

CompletedComment(r, what, value) ==
  [class |-> "completed",
   text |-> OkMark(args[r].provider) \o <<what>> \o value \o AdwTag(r)]

\* The comment of the precondition check, agent.py:487, gitlab_agent.py:395.
NotInstalledMsg == <<"Claude Code CLI is not installed">>

NotInstalledComment(r) ==
  [class |-> "failure", text |-> FailMark(args[r].provider) \o NotInstalledMsg]

\* Outcomes of one call of make_issue_comment.  The GitLab client ends the
\* calling thread with sys.exit when glab fails or times out.
gitlab_make_issue_comment == {"posted", "exit"}

\* The GitHub client (sdlc/lib/github.py): an opaque call that posts.
github_make_issue_comment == {"posted"}

make_issue_comment(p) ==
  IF p = "gitlab" THEN gitlab_make_issue_comment ELSE github_make_issue_comment

\* A step of the pipeline was called with argument arg and returned the
\* error err (None when it succeeded).
StepEvent(name, arg, err) == [ev |-> "step", name |-> name, text |-> arg, err |-> err]

\* The events of posting cs[1..k-1] and, if k <= Len(cs), of the call for
\* cs[k] ending the thread.
PostEvents(cs, k) ==
  [i \in 1..(IF k <= Len(cs) THEN k ELSE Len(cs)) |->
     [ev |-> IF i < k THEN "comment" ELSE "post_exit",
      name |-> cs[i].class, text |-> cs[i].text, err |-> None]]

\* The rest of a workflow segment after its step call: the comments cs are
\* posted in order; if every call returns, the workflow goes on to nextpc
\* (returning res when nextpc is "returned"); a call that exits ends the
\* thread there.
Proceed(r, evs, cs, nextpc, res) ==
  \E k \in 1..(Len(cs) + 1) :
    /\ (k <= Len(cs)) => "exit" \in make_issue_comment(args[r].provider)
    /\ trace' = [trace EXCEPT ![r] = @ \o evs \o PostEvents(cs, k)]
    /\ issue_comments' = issue_comments \o
         [i \in 1..(k - 1) |-> [run |-> r, text |-> cs[i].text]]
    /\ IF k > Len(cs)
       THEN /\ pc' = [pc EXCEPT ![r] = nextpc]
            /\ result' = [result EXCEPT ![r] = res]
       ELSE /\ pc' = [pc EXCEPT ![r] = "exited"]
            /\ UNCHANGED result

\* check_claude_installed() returned: err is None when the CLI is there.
CheckEvent(err) == [ev |-> "check", name |-> "check_claude_installed", text |-> <<>>, err |-> err]

NoResult == [returned |-> FALSE, success |-> FALSE, error |-> None]

Return(success, error) == [returned |-> TRUE, success |-> success, error |-> error]

----------------------------------------------------------------------------
(* The shared checkout: git status lines, branches and commits *)

\* A status line "XY PATH" is [xy |-> XY, path |-> PATH]; its text is
\* the two characters of XY, a blank and the pieces of the path.
StatusChars(xy) ==
  CASE xy = "??" -> <<"?", "?">>
    [] xy = " M" -> <<" ", "M">>
    [] xy = "M " -> <<"M", " ">>
    [] xy = "A " -> <<"A", " ">>
    [] xy = " D" -> <<" ", "D">>

LineText(line) == StatusChars(line.xy) \o <<" ">> \o line.path

\* The plan file the planning command of run r writes.
PlanPath(r) == <<"ai-", "specs/", "issue-123-", AdwIdOf[r], ".md">>

PlanLine(r) == [xy |-> "??", path |-> PlanPath(r)]

\* A source file the implement command edits.
CodeLine == [xy |-> " M", path |-> <<"src/", "app.py">>]

Paths(lines) == { lines[i].path : i \in 1..Len(lines) }

AddLine(lines, line) == IF line.path \in Paths(lines) THEN lines ELSE Append(lines, line)

\* 'frag' in text, for a fragment that is one piece of the text.
Contains(text, frag) == \E i \in 1..Len(text) : text[i] = frag

ContainsPair(text, f1, f2) ==
  \E i \in 1..(Len(text) - 1) : text[i] = f1 /\ text[i + 1] = f2

endswith(text, frag) == text # <<>> /\ text[Len(text)] = frag

\* The filter of locate_plan_file on a line of the listing, agent.py:263.
IsSpecLine(line) ==
  /\ \/ Contains(line, "specs/")
     \/ ContainsPair(line, "ai-", "specs/")
  /\ endswith(line, ".md")

\* result.stdout.strip().split('\n'): the texts of the lines, the first
\* without the blanks it began with.
stdout_lines(lines) ==
  [i \in 1..Len(lines) |->
     IF i = 1 THEN lstrip(LineText(lines[i])) ELSE LineText(lines[i])]

\* A piece of a path without its first character.
Beheaded(piece) ==
  CASE piece = "specs/" -> "pecs/"
    [] piece = "ai-" -> "i-"
    [] piece = "src/" -> "rc/"
    [] piece = "docs/my" -> "ocs/my"
    [] OTHER -> ""

\* line[n:], the pieces "?", "M", "A", "D" and " " being one character.
RECURSIVE slice_from(_, _)
slice_from(line, n) ==
  IF n = 0 \/ line = <<>> THEN line
  ELSE IF Head(line) \in {"?", "M", "A", "D", " "}
       THEN slice_from(Tail(line), n - 1)
       ELSE slice_from(<<Beheaded(Head(line))>> \o Tail(line), n - 1)

\* locate_plan_file (GitHub): the pair (plan_file_path, error_message),
\* given whether git status ran and the lines it listed.
locate_plan_file(status_ok, lines) ==
  IF ~status_ok THEN <<None, <<"Git status failed: ", "stderr">>>>
  ELSE LET spec_files == SelectSeq(stdout_lines(lines), IsSpecLine)
       IN IF spec_files = <<>>
          THEN <<None, <<"No plan file found in git status">>>>
          ELSE <<strip(slice_from(spec_files[1], 3)), None>>

\* Answers of the agent to the /locate command.
LocateOutputs(r) == { PlanPath(r) \o <<"\n">>, <<"0", "\n">>, <<"\n">>, <<>> }

\* locate_gitlab_plan_file, given the agent's response.
locate_gitlab_plan_file(response) ==
  IF ~response.success THEN <<None, response.output>>
  ELSE LET path == strip(response.output)
       IN IF path = <<"0">> \/ path = <<>>
          THEN <<None, <<"Plan file not found">>>>
          ELSE <<path, None>>

\* git add . : every listed change becomes staged.
StagedXY(xy) == IF xy = "??" THEN "A " ELSE IF xy = " M" THEN "M " ELSE xy

Stage(lines) == [i \in 1..Len(lines) |-> [xy |-> StagedXY(lines[i].xy), path |-> lines[i].path]]

\* commit_changes: the sub-steps git add, aipr commit, git commit run in
\* this order and the first that fails ends the step.  failing is the
\* sub-step that fails, or "none".  A sub-step fails by exiting non-zero
\* (CalledProcessError); "aipr_missing" is aipr not being installed, which
\* raises another exception.  git commit fails when nothing is staged.

CommitFailing(lines) ==
  {"add", "aipr", "aipr_missing", "commit"} \cup (IF lines = <<>> THEN {} ELSE {"none"})

commit_changes(failing) ==
  CASE failing = "none" -> <<TRUE, None>>
    [] failing = "aipr_missing" -> <<FALSE, <<"Error committing changes: ", "exception">>>>
    [] OTHER -> <<FALSE, <<"Git commit failed: ", "stderr">>>>

\* The sub-steps commit_changes runs, in their order, each with whether it
\* succeeded: subprocess.run(check=True) raises at the first that fails.
commit_subprocesses_run_all(failing) ==
  <<[cmd |-> "git add", ok |-> failing # "add"],
    [cmd |-> "aipr commit", ok |-> failing \notin {"aipr", "aipr_missing"}],
    [cmd |-> "git commit", ok |-> failing # "commit"]>>

commit_subprocesses(failing) ==
  CASE failing = "add" -> <<[cmd |-> "git add", ok |-> FALSE]>>
    [] failing \in {"aipr", "aipr_missing"} ->
         <<[cmd |-> "git add", ok |-> TRUE], [cmd |-> "aipr commit", ok |-> FALSE]>>
    [] failing = "commit" ->
         <<[cmd |-> "git add", ok |-> TRUE], [cmd |-> "aipr commit", ok |-> TRUE],
           [cmd |-> "git commit", ok |-> FALSE]>>
    [] OTHER ->
         <<[cmd |-> "git add", ok |-> TRUE], [cmd |-> "aipr commit", ok |-> TRUE],
           [cmd |-> "git commit", ok |-> TRUE]>>

\* The working tree after commit_changes.
TreeAfterCommit(lines, failing) ==
  CASE failing = "add" -> lines
    [] failing = "none" -> <<>>
    [] OTHER -> Stage(lines)

CommitsAfterCommit(r, lines, failing) ==
  IF failing = "none"
  THEN Append(commits, [run |-> r, branch |-> head, files |-> Paths(lines)])
  ELSE commits

----------------------------------------------------------------------------
(* The workflow: execute_agent_workflow and execute_gitlab_agent_workflow *)

\* The pipeline without its commit step: IMPLEMENT goes straight to
\* OPEN_REQUEST.
NextStep_skip_commit(step, plan_only) ==
  CASE step = "start" -> "determine"
    [] step = "determine" -> "create_branch"
    [] step = "create_branch" -> "build_plan"
    [] step = "build_plan" -> IF plan_only THEN "commit_plan" ELSE "locate"
    [] step = "commit_plan" -> "returned"
    [] step = "locate" -> "implement"
    [] step = "implement" -> "open_request"
    [] step = "commit_all" -> "open_request"
    [] step = "open_request" -> "returned"

\* The pipeline that commits the plan before implementing it in full mode
\* too, and commits again after IMPLEMENT.
NextStep_two_commits(step, plan_only) ==
  CASE step = "start" -> "determine"
    [] step = "determine" -> "create_branch"
    [] step = "create_branch" -> "build_plan"
    [] step = "build_plan" -> "commit_plan"
    [] step = "commit_plan" -> IF plan_only THEN "returned" ELSE "locate"
    [] step = "locate" -> "implement"
    [] step = "implement" -> "commit_all"
    [] step = "commit_all" -> "open_request"
    [] step = "open_request" -> "returned"

\* The step the workflow goes to when a step has succeeded and its progress
\* comment is posted: the order of the statements of the workflow function,
\* with the branch "if plan_only:" after the plan step.
NextStep(step, plan_only) ==
  CASE step = "start" -> "determine"
    [] step = "determine" -> "create_branch"
    [] step = "create_branch" -> "build_plan"
    [] step = "build_plan" -> IF plan_only THEN "commit_plan" ELSE "locate"
    [] step = "commit_plan" -> "returned"
    [] step = "locate" -> "implement"
    [] step = "implement" -> "commit_all"
    [] step = "commit_all" -> "open_request"
    [] step = "open_request" -> "returned"

\* Python truthiness of an optional text: "if error:", "if explicit_command:".
Truthy(e) == e # None /\ e # <<>>

\* The explicit command ignored: every run classifies.
UsesExplicit_never(explicit_command) == FALSE

\* "if explicit_command:", agent.py:491.
UsesExplicit(explicit_command) == Truthy(explicit_command)

\* A workflow that posts no progress comment after a successful step.
StepComments_no_progress(failed, failure, progress) == IF failed THEN <<failure>> ELSE <<>>

\* A workflow that returns the error of a failed step without commenting.
StepComments_no_failure(failed, failure, progress) == IF failed THEN <<>> ELSE progress

\* The comments the workflow posts after a step: the failure comment when
\* the step failed, else the step's progress comment (followed by the
\* completion comment after the last step).
StepComments(failed, failure, progress) == IF failed THEN <<failure>> ELSE progress

\* "if error: ... return False, error", else go on: the part of the workflow
\* from the return of step `step` to the call of the next step.
AfterStep(r, step, evs, failed, error, failure, progress) ==
  LET next == NextStep(step, args[r].plan_only)
  IN IF failed
     THEN Proceed(r, evs, StepComments(failed, failure, progress), "returned",
                  Return(FALSE, error))
     ELSE Proceed(r, evs, StepComments(failed, failure, progress), next,
                  IF next = "returned" THEN Return(TRUE, None) ELSE result[r])

ExplicitCommands == {None} \cup Selectors

\* The dispatcher starts the background task of run r with its arguments.
Launch(r) ==
  /\ pc[r] = "idle"
  /\ \E p \in Providers, e \in ExplicitCommands, po \in BOOLEAN :
       args' = [args EXCEPT ![r] = [provider |-> p, adw_id |-> AdwIdOf[r],
                                    explicit_command |-> e, plan_only |-> po,
                                    issue_number |-> <<"123">>,
                                    project_path |-> IF p = "gitlab"
                                                     THEN <<"group/project">> ELSE <<>>]]
  /\ pc' = [pc EXCEPT ![r] = "start"]
  /\ UNCHANGED env
  /\ UNCHANGED <<command, branch_name, plan_file, result, trace, classify_call,
                 issue_comments, worktree, branches, head, commits>>

\* The precondition check, agent.py:483-488.
CheckInstalled(r) ==
  /\ pc[r] = "start"
  /\ \E check_claude_installed \in BOOLEAN :
       IF ~check_claude_installed
       THEN Proceed(r, <<CheckEvent(NotInstalledMsg)>>, <<NotInstalledComment(r)>>,
                    "returned", Return(FALSE, NotInstalledMsg))
       ELSE Proceed(r, <<CheckEvent(None)>>, <<>>,
                    NextStep("start", args[r].plan_only), result[r])
  /\ UNCHANGED env
  /\ UNCHANGED <<args, command, branch_name, plan_file, classify_call,
                 worktree, branches, head, commits>>

\* Step 1, agent.py:490-502.
DetermineCommand(r) ==
  /\ pc[r] = "determine"
  /\ IF UsesExplicit(args[r].explicit_command)
     THEN /\ command' = [command EXCEPT ![r] = args[r].explicit_command]
          /\ UNCHANGED classify_call
          /\ Proceed(r, <<StepEvent("determine_command", <<"explicit">>, None)>>,
                     <<ProgressComment(r, "Using command: ", args[r].explicit_command)>>,
                     NextStep("determine", args[r].plan_only), result[r])
     ELSE \E response \in ClassifyResponses :
            LET ret == classify_issue(response)
            IN /\ command' = [command EXCEPT ![r] = ret[1]]
               /\ classify_call' = [classify_call EXCEPT ![r] =
                                      [called |-> TRUE, response |-> response, ret |-> ret]]
               /\ AfterStep(r, "determine",
                            <<StepEvent("determine_command", <<"classify">>, ret[2])>>,
                            Truthy(ret[2]), ret[2],
                            FailureComment(r, "Classification failed: ", ret[2]),
                            <<ProgressComment(r, "Classified as: ", ret[1])>>)
  /\ UNCHANGED env
  /\ UNCHANGED <<args, branch_name, plan_file, worktree, branches, head, commits>>

\* What the /branch command answers when it succeeds.
BranchOutput(r) == <<"feat-issue-123-", AdwIdOf[r], "\n">>

\* create_branch / create_gitlab_branch, given the agent's response.
create_branch(response) ==
  IF ~response.success THEN <<None, response.output>>
  ELSE <<strip(response.output), None>>

\* The branches of the checkout after the /branch command.
BranchesAfter(response, name) ==
  IF response.success THEN branches \cup {name} ELSE branches

\* Step 2, agent.py:504-510.
CreateBranch(r) ==
  /\ pc[r] = "create_branch"
  /\ \E response \in AgentFailures \cup {[success |-> TRUE, output |-> BranchOutput(r)]} :
       LET ret == create_branch(response)
       IN /\ branch_name' = [branch_name EXCEPT ![r] = ret[1]]
          /\ branches' = BranchesAfter(response, ret[1])
          /\ head' = IF response.success THEN ret[1] ELSE head
          /\ AfterStep(r, "create_branch",
                       <<StepEvent("create_branch", command[r], ret[2])>>,
                       Truthy(ret[2]), ret[2],
                       FailureComment(r, "Branch creation failed: ", ret[2]),
                       <<ProgressComment(r, "Created branch: ", ret[1])>>)
  /\ UNCHANGED env
  /\ UNCHANGED <<args, command, plan_file, classify_call, worktree, commits>>

\* build_plan / build_gitlab_plan, given the agent's response.
build_plan(response) ==
  IF ~response.success THEN <<None, response.output>>
  ELSE <<response.output, None>>

\* Step 3, agent.py:512-518.
BuildPlan(r) ==
  /\ pc[r] = "build_plan"
  /\ \E response \in AgentFailures \cup {[success |-> TRUE, output |-> <<"Plan output">>]},
        wrote \in BOOLEAN :
       LET ret == build_plan(response)
       IN /\ worktree' = IF response.success /\ wrote
                         THEN AddLine(worktree, PlanLine(r)) ELSE worktree
          /\ AfterStep(r, "build_plan",
                       <<StepEvent("build_plan", command[r], ret[2])>>,
                       Truthy(ret[2]), ret[2],
                       FailureComment(r, "Plan creation failed: ", ret[2]),
                       <<ProgressComment(r, "Plan created", <<>>)>>)
  /\ UNCHANGED env
  /\ UNCHANGED <<args, command, branch_name, plan_file, classify_call,
                 branches, head, commits>>

\* The plan-only tail, agent.py:521-534.
CommitPlan(r) ==
  /\ pc[r] = "commit_plan"
  /\ \E failing \in CommitFailing(worktree) :
       LET ret == commit_changes(failing)
       IN /\ worktree' = TreeAfterCommit(worktree, failing)
          /\ commits' = CommitsAfterCommit(r, worktree, failing)
          /\ AfterStep(r, "commit_plan",
                       <<StepEvent("commit", <<"plan">>, ret[2])>>,
                       ~ret[1], ret[2],
                       FailureComment(r, "Plan commit failed: ", ret[2]),
                       <<ProgressComment(r, "Plan committed", <<>>),
                         CompletedComment(r, "Plan-only workflow completed!", <<>>)>>)
  /\ UNCHANGED env
  /\ UNCHANGED <<args, command, branch_name, plan_file, classify_call, branches, head>>

\* Step 4, agent.py:536-542 and gitlab_agent.py:444-450.
LocatePlanFile(r) ==
  /\ pc[r] = "locate"
  /\ \E ret \in IF args[r].provider = "github"
                THEN { locate_plan_file(ok, worktree) : ok \in BOOLEAN }
                ELSE { locate_gitlab_plan_file(response) :
                         response \in AgentFailures \cup
                           { [success |-> TRUE, output |-> o] : o \in LocateOutputs(r) } } :
       /\ plan_file' = [plan_file EXCEPT ![r] = ret[1]]
       /\ AfterStep(r, "locate",
                    <<StepEvent("locate_plan_file", <<>>, ret[2])>>,
                    Truthy(ret[2]), ret[2],
                    FailureComment(r, "Could not locate plan file: ", ret[2]),
                    <<ProgressComment(r, "Plan file: ", ret[1])>>)
  /\ UNCHANGED env
  /\ UNCHANGED <<args, command, branch_name, classify_call, worktree, branches,
                 head, commits>>

\* implement_plan / implement_gitlab_plan, given the agent's response.
implement_plan(response) ==
  IF ~response.success THEN <<None, response.output>>
  ELSE <<response.output, None>>

\* Step 5, agent.py:544-550.
Implement(r) ==
  /\ pc[r] = "implement"
  /\ \E response \in AgentFailures \cup
                       {[success |-> TRUE, output |-> <<"Implementation output">>]} :
       LET ret == implement_plan(response)
       IN /\ worktree' = IF response.success THEN AddLine(worktree, CodeLine) ELSE worktree
          /\ AfterStep(r, "implement",
                       <<StepEvent("implement", plan_file[r], ret[2])>>,
                       Truthy(ret[2]), ret[2],
                       FailureComment(r, "Implementation failed: ", ret[2]),
                       <<ProgressComment(r, "Implementation completed", <<>>)>>)
  /\ UNCHANGED env
  /\ UNCHANGED <<args, command, branch_name, plan_file, classify_call, branches,
                 head, commits>>

\* Step 6, agent.py:552-558.
CommitAll(r) ==
  /\ pc[r] = "commit_all"
  /\ \E failing \in CommitFailing(worktree) :
       LET ret == commit_changes(failing)
       IN /\ worktree' = TreeAfterCommit(worktree, failing)
          /\ commits' = CommitsAfterCommit(r, worktree, failing)
          /\ AfterStep(r, "commit_all",
                       <<StepEvent("commit", <<"plan and implementation">>, ret[2])>>,
                       ~ret[1], ret[2],
                       FailureComment(r, "Commit failed: ", ret[2]),
                       <<ProgressComment(r, "Changes committed", <<>>)>>)
  /\ UNCHANGED env
  /\ UNCHANGED <<args, command, branch_name, plan_file, classify_call, branches, head>>

RequestUrl(r) == <<"https://tracker/requests/", AdwIdOf[r]>>

\* create_pull_request, given the agent's response.
create_pull_request(response) ==
  IF ~response.success THEN <<None, response.output>>
  ELSE <<strip(response.output), None>>

\* create_gitlab_merge_request, given what create_merge_request did:
\* returned a URL, returned nothing, or raised.
create_gitlab_merge_request(outcome, mr_url) ==
  CASE outcome = "raised" -> <<None, <<"Error creating merge request: ", "exception">>>>
    [] outcome = "returned" /\ Truthy(mr_url) -> <<mr_url, None>>
    [] OTHER -> <<None, <<"Failed to create merge request">>>>

\* Step 7 and the completion comment, agent.py:560-575.
OpenRequest(r) ==
  /\ pc[r] = "open_request"
  /\ \E ret \in IF args[r].provider = "github"
                THEN { create_pull_request(response) :
                         response \in AgentFailures \cup
                           {[success |-> TRUE, output |-> RequestUrl(r) \o <<"\n">>]} }
                ELSE { create_gitlab_merge_request(o[1], o[2]) :
                         o \in { <<"raised", None>>, <<"returned", None>>,
                                 <<"returned", <<>> >>, <<"returned", RequestUrl(r)>> } } :
       LET gh == args[r].provider = "github"
       IN AfterStep(r, "open_request",
                    <<StepEvent("open_request", plan_file[r], ret[2])>>,
                    Truthy(ret[2]), ret[2],
                    FailureComment(r, IF gh THEN "PR creation failed: "
                                      ELSE "MR creation failed: ", ret[2]),
                    <<ProgressComment(r, IF gh THEN "Pull request created: "
                                         ELSE "Merge request created: ", ret[1]),
                      CompletedComment(r, IF gh THEN "Workflow completed! PR: "
                                          ELSE "Workflow completed! MR: ", ret[1])>>)
  /\ UNCHANGED env
  /\ UNCHANGED <<args, command, branch_name, plan_file, classify_call, worktree,
                 branches, head, commits>>

----------------------------------------------------------------------------
(* Text searched character by character: 'in', re.search, re.sub *)

\* text[i:].startswith(pat), with i counted from 1.
startswithAt(text, pat, i) ==
  /\ i + Len(pat) - 1 <= Len(text)
  /\ \A k \in 1..Len(pat) : text[i + k - 1] = pat[k]

\* text.find(pat) + 1: the first place pat occurs in text, 0 if none.
find(text, pat) ==
  IF \E i \in 1..Len(text) : startswithAt(text, pat, i)
  THEN CHOOSE i \in 1..Len(text) :
         /\ startswithAt(text, pat, i)
         /\ \A j \in 1..(i - 1) : ~startswithAt(text, pat, j)
  ELSE 0

\* " ".join(text.split()): outer whitespace dropped, every inner run of
\* whitespace made one blank.
RECURSIVE squeeze(_)
squeeze(s) ==
  IF s = <<>> THEN <<>>
  ELSE IF IsSpace(Head(s)) THEN <<" ">> \o squeeze(lstrip(Tail(s)))
  ELSE <<Head(s)>> \o squeeze(Tail(s))

join_split(text) == squeeze(strip(text))

\* The alternatives of a pattern that match text at place i, ignoring case.
\* A pattern is the set of the literal texts it matches in a text whose
\* whitespace runs are single blanks.
MatchesAt(text, pattern, i) == { p \in pattern : startswithAt(lower(text), p, i) }

\* re.search(pattern, text, re.IGNORECASE) finds a match.
re_search(pattern, text) == \E i \in 1..Len(text) : MatchesAt(text, pattern, i) # {}

\* re.sub(pattern, '', text, flags=re.IGNORECASE) from place i on: every
\* match, scanning from the left, is left out.
RECURSIVE re_sub_from(_, _, _)
re_sub_from(pattern, text, i) ==
  IF i > Len(text) THEN <<>>
  ELSE LET m == MatchesAt(text, pattern, i)
       IN IF m # {}
          THEN re_sub_from(pattern, text, i + Len(CHOOSE p \in m : TRUE))
          ELSE <<text[i]>> \o re_sub_from(pattern, text, i + 1)

re_sub(pattern, text) == re_sub_from(pattern, text, 1)

----------------------------------------------------------------------------
(* The Comment Parser: parse_agent_command *)

SDLC == <<"s", "d", "l", "c">>

\* plan_only_patterns, in the order of the list.
plan_only_patterns ==
  << {<<"-", "-", "p", "l", "a", "n", "-", "o", "n", "l", "y">>},
     {<<"p", "l", "a", "n", " ", "o", "n", "l", "y">>},
     {<<"d", "o", "n", "'", "t", " ", "i", "m", "p", "l", "e", "m", "e", "n", "t">>,
      <<"d", "o", "n", "t", " ", "i", "m", "p", "l", "e", "m", "e", "n", "t">>},
     {<<"n", "o", " ", "i", "m", "p", "l", "e", "m", "e", "n", "t", "a", "t", "i", "o", "n">>},
     {<<"s", "k", "i", "p", " ", "i", "m", "p", "l", "e", "m", "e", "n", "t", "a", "t", "i", "o", "n">>},
     {<<"p", "l", "a", "n", "n", "i", "n", "g", " ", "o", "n", "l", "y">>} >>

\* A parser that knows the flag "--plan-only" only.
FirstPlanOnlyPattern_flag_only(text) ==
  IF re_search(plan_only_patterns[1], text) THEN 1 ELSE 0

\* The first pattern of the list that the text matches, 0 if none: the loop
\* stops at the first match.
FirstPlanOnlyPattern(text) ==
  IF \E k \in 1..Len(plan_only_patterns) : re_search(plan_only_patterns[k], text)
  THEN CHOOSE k \in 1..Len(plan_only_patterns) :
         /\ re_search(plan_only_patterns[k], text)
         /\ \A j \in 1..(k - 1) : ~re_search(plan_only_patterns[j], text)
  ELSE 0

\* r'sdlc\s+' matches at place i: the trigger word and at least one blank.
SdlcAt(text, i) ==
  /\ startswithAt(lower(text), SDLC, i)
  /\ i + Len(SDLC) <= Len(text)
  /\ IsSpace(text[i + Len(SDLC)])

\* The optional group (/(?:feature|bug|chore)) at the head of rest: the
\* selector as it is written in the text, None when there is none.
SelectorAtHead(rest) ==
  CASE startswithAt(lower(rest), FEATURE, 1) -> SubSeq(rest, 1, Len(FEATURE))
    [] startswithAt(lower(rest), BUG, 1) -> SubSeq(rest, 1, Len(BUG))
    [] startswithAt(lower(rest), CHORE, 1) -> SubSeq(rest, 1, Len(CHORE))
    [] OTHER -> None

\* re.sub(r'sdlc\s*', '', text, flags=re.IGNORECASE) from place i on.
RECURSIVE remove_sdlc(_, _)
remove_sdlc(text, i) ==
  IF i > Len(text) THEN <<>>
  ELSE IF startswithAt(lower(text), SDLC, i)
       THEN LET after == SubSeq(text, i + Len(SDLC), Len(text))
            IN remove_sdlc(text, i + Len(SDLC) + (Len(after) - Len(lstrip(after))))
       ELSE <<text[i]>> \o remove_sdlc(text, i + 1)

\* A parser that, without a match of the main pattern, returns what stands
\* after the first trigger word.
parse_agent_command_after_keyword(comment_body) ==
  LET normal == join_split(comment_body)
      k == FirstPlanOnlyPattern(normal)
      plan_only == k # 0
      text == IF plan_only THEN strip(re_sub(plan_only_patterns[k], normal)) ELSE normal
  IN IF \E i \in 1..Len(text) : SdlcAt(text, i)
     THEN LET i == CHOOSE i \in 1..Len(text) :
                     SdlcAt(text, i) /\ \A j \in 1..(i - 1) : ~SdlcAt(text, j)
              rest == lstrip(SubSeq(text, i + Len(SDLC), Len(text)))
              cmd == SelectorAtHead(rest)
              tail == IF cmd = None THEN rest ELSE SubSeq(rest, Len(cmd) + 1, Len(rest))
          IN <<cmd, strip(tail), plan_only>>
     ELSE LET at == find(lower(text), SDLC)
          IN <<None,
               IF at = 0 THEN text ELSE strip(SubSeq(text, at + Len(SDLC), Len(text))),
               plan_only>>

\* parse_agent_command: the triple (command, remaining_text, plan_only).
parse_agent_command(comment_body) ==
  LET normal == join_split(comment_body)
      k == FirstPlanOnlyPattern(normal)
      plan_only == k # 0
      text == IF plan_only THEN strip(re_sub(plan_only_patterns[k], normal)) ELSE normal
  IN IF \E i \in 1..Len(text) : SdlcAt(text, i)
     THEN LET i == CHOOSE i \in 1..Len(text) :
                     SdlcAt(text, i) /\ \A j \in 1..(i - 1) : ~SdlcAt(text, j)
              rest == lstrip(SubSeq(text, i + Len(SDLC), Len(text)))
              cmd == SelectorAtHead(rest)
              tail == IF cmd = None THEN rest ELSE SubSeq(rest, Len(cmd) + 1, Len(rest))
          IN <<cmd, strip(tail), plan_only>>
     ELSE <<None, strip(remove_sdlc(text, 1)), plan_only>>

\* One call of the parser: the comment it is given and what it returned.
NoParse == [pc |-> "off", comment_body |-> <<>>, ret |-> <<None, None, FALSE>>]

\* The comments given to the parser: what stands before the trigger word,
\* the trigger word, a selector, the text of the request and a plan-only
\* phrasing; and comments in which the trigger word stands last, inside a
\* word or twice, or the phrasing stands before the end.
CommentTexts ==
  LET prefixes == { <<>>,
                     <<"h", "e", "y", " ">> }
      keywords == { <<"s", "d", "l", "c">>,
                     <<"S", "D", "L", "C">> }
      selectors == { <<>>,
                      <<" ", "/", "f", "e", "a", "t", "u", "r", "e">>,
                      <<" ", "/", "b", "u", "g">>,
                      <<" ", " ", "/", "C", "h", "o", "r", "e">>,
                      <<"/", "b", "u", "g">> }
      texts == { <<>>,
                  <<" ", "f", "i", "x", " ", "l", "o", "g", "i", "n">>,
                  <<" ", "a", "d", "d", "\n", "d", "a", "r", "k", " ", " ", "m", "o", "d", "e">> }
      endings == { <<>>,
                    <<" ", "-", "-", "P", "L", "A", "N", "-", "O", "N", "L", "Y">>,
                    <<" ", "P", "l", "a", "n", " ", "\n", " ", "o", "n", "l", "y">>,
                    <<" ", "d", "o", "n", "'", "t", " ", "i", "m", "p", "l", "e", "m", "e", "n", "t">>,
                    <<" ", "d", "o", "n", "t", " ", "i", "m", "p", "l", "e", "m", "e", "n", "t">>,
                    <<" ", "n", "o", " ", "i", "m", "p", "l", "e", "m", "e", "n", "t", "a", "t", "i", "o", "n">>,
                    <<" ", "s", "k", "i", "p", " ", "i", "m", "p", "l", "e", "m", "e", "n", "t", "a", "t", "i", "o", "n">>,
                    <<" ", "p", "l", "a", "n", "n", "i", "n", "g", " ", "o", "n", "l", "y">> }
      others == { <<"p", "l", "e", "a", "s", "e", " ", "f", "i", "x", " ", "s", "d", "l", "c">>,
                   <<"x", "s", "d", "l", "c", "x", " ", "s", "k", "i", "p", " ", "i", "m", "p", "l", "e", "m", "e", "n", "t", "a", "t", "i", "o", "n">>,
                   <<"s", "d", "l", "c", " ", "p", "l", "e", "a", "s", "e", " ", "s", "d", "l", "c", " ", "/", "b", "u", "g", " ", "n", "o", "w">>,
                   <<"s", "d", "l", "c", " ", "/", "b", "u", "g", " ", "f", "i", "x", " ", "s", "d", "l", "c", " ", "/", "b", "u", "g">>,
                   <<"p", "l", "a", "n", "n", "i", "n", "g", " ", "o", "n", "l", "y">>,
                   <<"s", "d", "l", "c", " ", "/", "f", "e", "a", "t", "u", "r", "e", "s">>,
                   <<"s", "d", "l", "c", " ", "/", "b", "u", "g", " ", "p", "l", "a", "n", " ", "o", "n", "l", "y", " ", "-", "-", "p", "l", "a", "n", "-", "o", "n", "l", "y">>,
                   <<"s", "d", "l", "c", " ", "/", "f", "e", "a", "t", "u", "r", "e", " ", "a", "d", "d", " ", "-", "-", "p", "l", "a", "n", "-", "o", "n", "l", "y", " ", "d", "a", "r", "k", " ", "m", "o", "d", "e">>,
                   <<"s", "d", "l", "c", " ", "-", "-", "p", "l", "a", "n", "-", "o", "n", "l", "y", " ", "/", "c", "h", "o", "r", "e", " ", "t", "i", "d", "y">>,
                   <<"P", "l", "a", "n", "n", "i", "n", "g", " ", "o", "n", "l", "y", ":", " ", "S", "D", "L", "C", " ", "/", "F", "e", "a", "t", "u", "r", "e">> }
  IN others \cup
     { pre \o kw \o sel \o txt \o ending :
         pre \in prefixes, kw \in keywords, sel \in selectors,
         txt \in texts, ending \in endings }

ParseCalls == { [NoParse EXCEPT !.pc = "called", !.comment_body = b] : b \in CommentTexts }

\* parse_agent_command runs and returns.
Parse ==
  /\ parser.pc = "called"
  /\ parser' = [parser EXCEPT !.pc = "returned",
                              !.ret = parse_agent_command(parser.comment_body)]
  /\ UNCHANGED <<pc, args, command, branch_name, plan_file, result, trace,
                 classify_call, issue_comments, worktree, branches, head, commits,
                 request, decision, hpc, reply, procs, resolver, invoker, tunnel, locator, committer>>

----------------------------------------------------------------------------
(* The webhook handlers: gitlab_webhook and github_webhook *)

\* The GitHub trigger word, watcher.py:363.
ADW == <<"a", "d", "w">>

\* An inbound request: the event header and the parts of the JSON body the
\* handlers read (json_ok is FALSE when the body is no JSON; a part the
\* payload lacks has the default the handler's .get() gives it).
\* iid is object_attributes.iid, issue_iid is issue.iid, issue_number is
\* issue.number, body is object_attributes.note or comment.body, description
\* is the text of the issue itself.
NoRequest ==
  [provider |-> "none", json_ok |-> TRUE, event_type |-> "", object_kind |-> "",
   commits |-> FALSE, project_path |-> <<>>, action |-> "", iid |-> None,
   issue_iid |-> None, issue_number |-> None, noteable_type |-> "",
   body |-> <<>>, description |-> <<>>]

IssueRef == <<"7">>

ProjectPath == <<"group/project">>

\* An issue text that itself holds a trigger comment.
CommandLikeText == <<"s", "d", "l", "c", " ", "/", "c", "h", "o", "r", "e", " ", "-", "-", "p", "l", "a", "n", "-", "o", "n", "l", "y">>

NoteBodies ==
  { <<"s", "d", "l", "c", " ", "/", "c", "h", "o", "r", "e", " ", "f", "i", "x", " ", "t", "h", "i", "s", " ", "b", "u", "g">>,
    <<"s", "d", "l", "c", " ", "/", "f", "e", "a", "t", "u", "r", "e", " ", "x", " ", "-", "-", "p", "l", "a", "n", "-", "o", "n", "l", "y">>,
    <<"s", "d", "l", "c", " ", "p", "l", "e", "a", "s", "e">>,
    <<"S", "D", "L", "C", " ", "/", "B", "u", "g", " ", "f", "i", "x", " ", "p", "l", "a", "n", " ", "o", "n", "l", "y">>,
    <<"p", "l", "e", "a", "s", "e", " ", "f", "i", "x">>,
    <<" ", " ", "S", "d", "l", "c", " ", " ", " ", "/", "c", "h", "o", "r", "e", "\n">>,
    <<"x", "s", "d", "l", "c", "x", " ", "d", "o", "n", "'", "t", " ", "i", "m", "p", "l", "e", "m", "e", "n", "t">>,
    <<"s", "d", "l", "c", " ", "/", "f", "e", "a", "t", "u", "r", "e", "s">> }

GitlabRequest == [NoRequest EXCEPT !.provider = "gitlab", !.project_path = ProjectPath]

GitlabIssueEvents ==
  { [GitlabRequest EXCEPT !.event_type = "Issue Hook", !.object_kind = "issue",
                          !.action = a, !.iid = i, !.description = d] :
      a \in {"open", "update", "close"}, i \in {None, IssueRef},
      d \in {<<>>, CommandLikeText} }

GitlabNoteEvents ==
  { [GitlabRequest EXCEPT !.event_type = "Note Hook", !.object_kind = "note",
                          !.noteable_type = n, !.issue_iid = i, !.body = b] :
      n \in {"Issue", "MergeRequest"}, i \in {None, IssueRef}, b \in NoteBodies }

GitlabOtherEvents ==
  { [GitlabRequest EXCEPT !.event_type = "Push Hook", !.object_kind = "push",
                          !.commits = c] : c \in BOOLEAN }
  \cup { [GitlabRequest EXCEPT !.json_ok = FALSE],
         [GitlabRequest EXCEPT !.event_type = "Pipeline Hook", !.object_kind = "pipeline"],
         [GitlabRequest EXCEPT !.object_kind = "issue", !.action = "open",
                               !.iid = IssueRef, !.project_path = <<>>],
         [GitlabRequest EXCEPT !.object_kind = "note", !.noteable_type = "Issue",
                               !.issue_iid = IssueRef, !.body = SDLC] }

GitlabEvents == GitlabIssueEvents \cup GitlabNoteEvents \cup GitlabOtherEvents

CommentBodies ==
  { ADW,
    <<" ", "A", "D", "W", "\n">>,
    <<"a", "d", "w", " ", "p", "l", "e", "a", "s", "e">>,
    <<"s", "d", "l", "c", " ", "/", "c", "h", "o", "r", "e">> }

GithubRequest == [NoRequest EXCEPT !.provider = "github"]

GithubEvents ==
  { [GithubRequest EXCEPT !.event_type = e, !.action = a, !.issue_number = n,
                          !.body = b] :
      e \in {"ping", "issues", "issue_comment", "push"},
      a \in {"opened", "created", "closed"},
      n \in {None, IssueRef}, b \in CommentBodies }
  \cup { [GithubRequest EXCEPT !.json_ok = FALSE] }

\* What the handler has decided before it dispatches: should_trigger,
\* trigger_reason, explicit_command, plan_only and issue_iid.
NoTrigger(iid) ==
  [should_trigger |-> FALSE, trigger_reason |-> "", explicit_command |-> None,
   plan_only |-> FALSE, issue_iid |-> iid]

\* A handler that reads an explicit command and the plan-only flag from the
\* text of an opened issue as well.
gitlab_trigger_parses_issue(ev) ==
  IF ev.event_type = "Issue Hook" \/ ev.object_kind = "issue"
  THEN IF ev.action = "open" /\ Truthy(ev.iid)
       THEN [NoTrigger(ev.iid) EXCEPT
               !.should_trigger = TRUE, !.trigger_reason = "New issue opened",
               !.explicit_command = parse_agent_command(ev.description)[1],
               !.plan_only = parse_agent_command(ev.description)[3]]
       ELSE NoTrigger(ev.iid)
  ELSE IF ev.event_type = "Note Hook" \/ ev.object_kind = "note"
       THEN LET note_body == strip(ev.body)
            IN IF /\ ev.noteable_type = "Issue"
                  /\ Truthy(ev.issue_iid)
                  /\ find(lower(note_body), SDLC) # 0
               THEN LET parsed == parse_agent_command(note_body)
                    IN [should_trigger |-> TRUE,
                        trigger_reason |-> "Comment with 'sdlc' trigger",
                        explicit_command |-> parsed[1],
                        plan_only |-> parsed[3],
                        issue_iid |-> ev.issue_iid]
               ELSE NoTrigger(ev.issue_iid)
       ELSE NoTrigger(None)

\* A handler that looks for the trigger word without lower-casing the note.
gitlab_trigger_case_sensitive(ev) ==
  IF ev.event_type = "Issue Hook" \/ ev.object_kind = "issue"
  THEN IF ev.action = "open" /\ Truthy(ev.iid)
       THEN [NoTrigger(ev.iid) EXCEPT !.should_trigger = TRUE,
                                      !.trigger_reason = "New issue opened"]
       ELSE NoTrigger(ev.iid)
  ELSE IF ev.event_type = "Note Hook" \/ ev.object_kind = "note"
       THEN LET note_body == strip(ev.body)
            IN IF /\ ev.noteable_type = "Issue"
                  /\ Truthy(ev.issue_iid)
                  /\ find(note_body, SDLC) # 0
               THEN LET parsed == parse_agent_command(note_body)
                    IN [should_trigger |-> TRUE,
                        trigger_reason |-> "Comment with 'sdlc' trigger",
                        explicit_command |-> parsed[1],
                        plan_only |-> parsed[3],
                        issue_iid |-> ev.issue_iid]
               ELSE NoTrigger(ev.issue_iid)
       ELSE NoTrigger(None)

\* gitlab_webhook, lines 342-386.
gitlab_trigger(ev) ==
  IF ev.event_type = "Issue Hook" \/ ev.object_kind = "issue"
  THEN IF ev.action = "open" /\ Truthy(ev.iid)
       THEN [NoTrigger(ev.iid) EXCEPT !.should_trigger = TRUE,
                                      !.trigger_reason = "New issue opened"]
       ELSE NoTrigger(ev.iid)
  ELSE IF ev.event_type = "Note Hook" \/ ev.object_kind = "note"
       THEN LET note_body == strip(ev.body)
            IN IF /\ ev.noteable_type = "Issue"
                  /\ Truthy(ev.issue_iid)
                  /\ find(lower(note_body), SDLC) # 0
               THEN LET parsed == parse_agent_command(note_body)
                    IN [should_trigger |-> TRUE,
                        trigger_reason |-> "Comment with 'sdlc' trigger",
                        explicit_command |-> parsed[1],
                        plan_only |-> parsed[3],
                        issue_iid |-> ev.issue_iid]
               ELSE NoTrigger(ev.issue_iid)
       ELSE NoTrigger(None)

\* A handler that accepts every comment containing the trigger word.
github_trigger_contains(ev) ==
  IF ev.event_type = "issues" /\ ev.action = "opened" /\ Truthy(ev.issue_number)
  THEN [NoTrigger(ev.issue_number) EXCEPT !.should_trigger = TRUE,
                                          !.trigger_reason = "New issue opened"]
  ELSE IF /\ ev.event_type = "issue_comment" /\ ev.action = "created"
          /\ Truthy(ev.issue_number)
          /\ find(lower(strip(ev.body)), ADW) # 0
       THEN [NoTrigger(ev.issue_number) EXCEPT !.should_trigger = TRUE,
                                               !.trigger_reason = "Comment with 'adw' command"]
       ELSE NoTrigger(ev.issue_number)

\* github_webhook, lines 348-365.
github_trigger(ev) ==
  IF ev.event_type = "issues" /\ ev.action = "opened" /\ Truthy(ev.issue_number)
  THEN [NoTrigger(ev.issue_number) EXCEPT !.should_trigger = TRUE,
                                          !.trigger_reason = "New issue opened"]
  ELSE IF /\ ev.event_type = "issue_comment" /\ ev.action = "created"
          /\ Truthy(ev.issue_number)
          /\ lower(strip(ev.body)) = ADW
       THEN [NoTrigger(ev.issue_number) EXCEPT !.should_trigger = TRUE,
                                               !.trigger_reason = "Comment with 'adw' command"]
       ELSE NoTrigger(ev.issue_number)

\* The status objects the handlers return.
NoReply == [status |-> "none"]

ActiveReply == [status |-> "ok", message |-> "Webhook is active and receiving events"]

PongReply ==
  [status |-> "ok", message |-> "Webhook is active and receiving events", pong |-> "zen"]

InternalErrorReply == [status |-> "error", message |-> "Internal error processing webhook"]

FetchFailedReply == [status |-> "error", message |-> "Failed to fetch issue: ValueError"]

ScriptMissingReply == [status |-> "error", message |-> "adw_plan_build.py script not found"]

IgnoredReply(ev) ==
  [status |-> "ignored",
   reason |-> <<"Not a triggering event", ev.event_type,
                IF ev.provider = "gitlab" THEN ev.object_kind ELSE ev.action>>]

AcceptedReply(ev, t, adw_id) ==
  IF ev.provider = "gitlab"
  THEN [status |-> "accepted", issue |-> t.issue_iid, adw_id |-> adw_id,
        reason |-> t.trigger_reason,
        command |-> IF Truthy(t.explicit_command) THEN t.explicit_command
                    ELSE <<"auto-classify">>,
        plan_only |-> t.plan_only]
  ELSE [status |-> "accepted", issue |-> t.issue_iid, adw_id |-> adw_id,
        reason |-> t.trigger_reason]

\* The handler returns a status object.
Replied(q, r) ==
  /\ reply' = [reply EXCEPT ![q] = r]
  /\ hpc' = [hpc EXCEPT ![q] = "done"]
  /\ UNCHANGED <<pc, args, procs>>

\* An exit (SystemExit) leaves the handler: "except Exception" does not
\* catch it, and no status object is returned.
Escaped(q) ==
  /\ hpc' = [hpc EXCEPT ![q] = "escaped"]
  /\ UNCHANGED <<pc, args, procs, reply>>

\* The values of the handler are kept in one place for all tasks.
Started_shared_arguments(q, a, cmd) ==
  /\ pc' = [pc EXCEPT ![q] = "start"]
  /\ args' = [r \in Runs |-> IF r = q \/ pc[r] # "off" THEN a ELSE args[r]]
  /\ procs' = procs \o cmd
  /\ hpc' = [hpc EXCEPT ![q] = "respond"]
  /\ UNCHANGED reply

\* The background task is started with the values the handler holds.
Started(q, a, cmd) ==
  /\ pc' = [pc EXCEPT ![q] = "start"]
  /\ args' = [args EXCEPT ![q] = a]
  /\ procs' = procs \o cmd
  /\ hpc' = [hpc EXCEPT ![q] = "respond"]
  /\ UNCHANGED reply

\* Outcomes of fetch_issue (gitlab.py:133-193): the issue, or sys.exit on
\* every failure of the glab call.
fetch_issue == {"issue", "exit"}

\* Outcomes of get_repo_url / extract_project_path: a path, or ValueError.
get_repo_url == {"path", "ValueError"}

\* The project path of the remote of the checkout.
OriginProjectPath == <<"origin/project">>

\* The handler of POST /gl-webhook up to the start of the thread
\* (gitlab_watcher.py:318-437 and 453-463).
gitlab_handler(q, events) ==
  /\ hpc[q] = "waiting"
  /\ \E ev \in events, fetched \in fetch_issue, remote \in get_repo_url :
       LET t == gitlab_trigger(ev)
       IN /\ request' = [request EXCEPT ![q] = ev]
          /\ decision' = [decision EXCEPT ![q] =
                            IF ev.json_ok /\ ~(ev.event_type = "Push Hook" /\ ~ev.commits)
                            THEN t ELSE @]
          /\ IF ~ev.json_ok THEN Replied(q, InternalErrorReply)
             ELSE IF ev.event_type = "Push Hook" /\ ~ev.commits
                  THEN Replied(q, ActiveReply)
             ELSE IF t.should_trigger /\ Truthy(t.issue_iid)
                  THEN IF ~Truthy(ev.project_path) /\ remote = "ValueError"
                       THEN Replied(q, FetchFailedReply)
                       ELSE IF fetched = "exit" THEN Escaped(q)
                       ELSE Started(q, [provider |-> "gitlab", adw_id |-> AdwIdOf[q],
                                        explicit_command |-> t.explicit_command,
                                        plan_only |-> t.plan_only,
                                        issue_number |-> t.issue_iid,
                                        project_path |-> IF Truthy(ev.project_path)
                                                         THEN ev.project_path
                                                         ELSE OriginProjectPath], <<>>)
             ELSE Replied(q, IgnoredReply(ev))
  /\ UNCHANGED <<command, branch_name, plan_file, result, trace, classify_call,
                 issue_comments, worktree, branches, head, commits, resolver, invoker,
                 parser, tunnel, locator, committer>>

\* A request to POST /gl-webhook is handled.
gitlab_webhook(q) == gitlab_handler(q, GitlabEvents)

\* scripts/adw_plan_build.py <issue_number> <adw_id>, the process the GitHub
\* handler launches: it runs the workflow on the issue, classifying it, in
\* full mode.
adw_plan_build(issue_number, adw_id) ==
  [provider |-> "github", adw_id |-> adw_id, explicit_command |-> None,
   plan_only |-> FALSE, issue_number |-> issue_number, project_path |-> <<>>]

\* Outcomes of the launch: the script is missing, Popen raises, or the
\* process is started.
LaunchOutcomes == {"script_missing", "popen_raises", "started"}

\* The handler of POST /gh-webhook up to the start of the process
\* (watcher.py:320-393 and 406-418).
github_handler(q, events) ==
  /\ hpc[q] = "waiting"
  /\ \E ev \in events, launch \in LaunchOutcomes :
       LET t == github_trigger(ev)
       IN /\ request' = [request EXCEPT ![q] = ev]
          /\ decision' = [decision EXCEPT ![q] =
                            IF ev.json_ok /\ ev.event_type # "ping" THEN t ELSE @]
          /\ IF ~ev.json_ok THEN Replied(q, InternalErrorReply)
             ELSE IF ev.event_type = "ping"
                  THEN Replied(q, PongReply)
             ELSE IF t.should_trigger
                  THEN CASE launch = "script_missing" -> Replied(q, ScriptMissingReply)
                         [] launch = "popen_raises" -> Replied(q, InternalErrorReply)
                         [] OTHER ->
                              Started(q, adw_plan_build(ev.issue_number, AdwIdOf[q]),
                                      << <<"uv", "run", "scripts/adw_plan_build.py",
                                           ev.issue_number, AdwIdOf[q]>> >>)
             ELSE Replied(q, IgnoredReply(ev))
  /\ UNCHANGED <<command, branch_name, plan_file, result, trace, classify_call,
                 issue_comments, worktree, branches, head, commits, resolver, invoker,
                 parser, tunnel, locator, committer>>

\* A request to POST /gh-webhook is handled.
github_webhook(q) == github_handler(q, GithubEvents)

\* Events that start runs with different issues, commands, modes and
\* project paths, for requests handled at the same time.
ConcurrentGitlabEvents ==
  { [GitlabRequest EXCEPT !.event_type = "Issue Hook", !.object_kind = "issue",
                          !.action = "open", !.iid = IssueRef],
    [GitlabRequest EXCEPT !.object_kind = "issue", !.action = "open",
                          !.iid = IssueRef, !.project_path = <<>>],
    [GitlabRequest EXCEPT !.event_type = "Note Hook", !.object_kind = "note",
                          !.noteable_type = "Issue", !.issue_iid = <<"8">>,
                          !.body = SDLC \o <<" ">> \o BUG],
    [GitlabRequest EXCEPT !.event_type = "Note Hook", !.object_kind = "note",
                          !.noteable_type = "Issue", !.issue_iid = IssueRef,
                          !.body = SDLC \o <<" ">> \o FEATURE \o
                                   <<" ", "x", " ", "-", "-", "p", "l", "a", "n", "-",
                                     "o", "n", "l", "y">>] }

ConcurrentGithubEvents ==
  { [GithubRequest EXCEPT !.event_type = "issues", !.action = "opened",
                          !.issue_number = n, !.body = <<>>] : n \in {IssueRef, <<"8">>} }

\* One of two requests that arrive together is handled.
concurrent_webhook(q) ==
  \/ gitlab_handler(q, ConcurrentGitlabEvents)
  \/ github_handler(q, ConcurrentGithubEvents)

\* A handler that joins the run it started before it returns.
ReadyToReturn_after_join(q) == pc[q] \in {"returned", "exited"}

\* The handler joins nothing after thread.start() / Popen(): what it waits
\* for before it returns the acceptance payload.
ReadyToReturn(q) == TRUE

\* The rest of a handler that has started the run: it returns the
\* acceptance payload (gitlab_watcher.py:439-452, watcher.py:395-405).
webhook_return(q) ==
  /\ hpc[q] = "respond"
  /\ ReadyToReturn(q)
  /\ reply' = [reply EXCEPT ![q] = AcceptedReply(request[q], decision[q], AdwIdOf[q])]
  /\ hpc' = [hpc EXCEPT ![q] = "done"]
  /\ UNCHANGED <<pc, args, command, branch_name, plan_file, result, trace,
                 classify_call, issue_comments, worktree, branches, head, commits,
                 request, decision, procs, resolver, invoker, parser, tunnel, locator, committer>>

----------------------------------------------------------------------------
(* The Command Resolver: check_slash_command_exists, resolve_slash_command *)

SdlcPrefix == <<"/", "s", "d", "l", "c", ":">>

LOCATE == <<"/", "l", "o", "c", "a", "t", "e">>

\* s.startswith(prefix)
startswith(s, prefix) == startswithAt(s, prefix, 1)

\* s.lstrip('/')
RECURSIVE lstrip_slash(_)
lstrip_slash(s) ==
  IF s # <<>> /\ Head(s) = "/" THEN lstrip_slash(Tail(s)) ELSE s

\* s.replace(old, '') from place i on.
RECURSIVE remove_all(_, _, _)
remove_all(s, old, i) ==
  IF i > Len(s) THEN <<>>
  ELSE IF startswithAt(s, old, i) THEN remove_all(s, old, i + Len(old))
  ELSE <<s[i]>> \o remove_all(s, old, i + 1)

\* check_slash_command_exists; plugin_files is the set of the names n for
\* which plugins/sdlc/commands/<n>.md exists.
check_slash_command_exists(slash_command, plugin_files) ==
  IF ~startswith(slash_command, SdlcPrefix) THEN FALSE
  ELSE remove_all(slash_command, SdlcPrefix, 1) \in plugin_files

\* resolve_slash_command that returns the plugin form without verifying it.
resolve_slash_command_unverified(base_command, plugin_files) ==
  IF check_slash_command_exists(base_command, plugin_files) THEN base_command
  ELSE SdlcPrefix \o lstrip_slash(base_command)

\* resolve_slash_command
resolve_slash_command(base_command, plugin_files) ==
  IF check_slash_command_exists(base_command, plugin_files) THEN base_command
  ELSE LET sdlc_command == SdlcPrefix \o lstrip_slash(base_command)
       IN IF check_slash_command_exists(sdlc_command, plugin_files)
          THEN sdlc_command
          ELSE base_command

\* The names of commands: a command file <name>.md.
CommandNames == { Tail(FEATURE), Tail(BUG), Tail(CHORE), Tail(LOCATE) }

\* The commands the callers resolve, and one that is namespaced already.
BaseCommands == { FEATURE, BUG, CHORE, LOCATE, SdlcPrefix \o Tail(FEATURE) }

NoResolution ==
  [pc |-> "off", base_command |-> <<>>, user_commands |-> {}, plugin_files |-> {},
   exists |-> FALSE, resolved |-> None]

\* A caller resolves base_command in a checkout whose local override
\* registry (.claude/commands) holds user_commands, with plugin_files
\* installed.
Resolutions ==
  { [NoResolution EXCEPT !.pc = "call", !.base_command = b, !.user_commands = u,
                         !.plugin_files = f] :
      b \in BaseCommands, u \in SUBSET (CommandNames \ {Tail(LOCATE)}),
      f \in SUBSET CommandNames }

Resolve ==
  /\ resolver.pc = "call"
  /\ resolver' =
       [resolver EXCEPT
          !.pc = "returned",
          !.exists = check_slash_command_exists(resolver.base_command,
                                                resolver.plugin_files),
          !.resolved = resolve_slash_command(resolver.base_command,
                                             resolver.plugin_files)]
  /\ UNCHANGED <<pc, args, command, branch_name, plan_file, result, trace,
                 classify_call, issue_comments, worktree, branches, head, commits,
                 request, decision, hpc, reply, procs, invoker, parser,
                 tunnel, locator, committer>>

----------------------------------------------------------------------------
(* The Agent Invoker: execute_claude_command *)

\* The longest output stream of an invocation.
MaxLines == 3

\* A key the JSON object of a line does not have.
Absent == <<"absent">>

\* A line of the agent's output: a JSON object with or without the keys
\* session_id and result, a JSON value that is no object, or no JSON.
NoLine == [raw |-> "", kind |-> "text", session_id |-> Absent, result |-> Absent]

StreamLines ==
  { [NoLine EXCEPT !.raw = "init", !.kind = "object", !.session_id = <<"session-1">>],
    [NoLine EXCEPT !.raw = "result", !.kind = "object", !.session_id = <<"session-2">>,
                   !.result = <<"Success">>],
    [NoLine EXCEPT !.raw = "partial", !.kind = "object", !.result = <<"Partial">>],
    [NoLine EXCEPT !.raw = "tool_use", !.kind = "object"],
    [NoLine EXCEPT !.raw = "warning", !.kind = "text"],
    [NoLine EXCEPT !.raw = "123", !.kind = "scalar"] }

Streams == UNION { [1..n -> StreamLines] : n \in 0..MaxLines }

\* The temporary name of the transcript and its final name.
TempJsonl == <<"streaming", ".jsonl">>

FinalJsonl(session_id) == session_id \o <<".jsonl">>

\* What the process writes to its standard error.
StderrTexts == { <<>>, <<"boom">> }

\* How the process ends once it has closed its output: its exit code, or
\* "timeout" when it does not exit and process.wait(timeout) raises
\* TimeoutExpired.
WaitOutcomes == {"0", "1", "timeout"}

\* stdout is what the process will still write, holds says that it keeps
\* its output open after the last line without ever closing it, expired
\* that the timeout budget of the invocation has passed.
NoInvocation ==
  [pc |-> "off", stdout |-> <<>>, holds |-> FALSE, exit |-> "0", stderr |-> <<>>,
   expired |-> FALSE, session_id |-> None, output_text |-> <<>>,
   all_lines |-> <<>>, jsonl |-> <<>>, jsonl_open |-> FALSE, jsonl_name |-> TempJsonl,
   returncode |-> None, ret |-> <<FALSE, <<>>, None>>]

\* The process is started with the transcript file open (claude.py:67-96).
Invocations ==
  { [NoInvocation EXCEPT !.pc = "streaming", !.stdout = s, !.jsonl_open = TRUE,
                         !.holds = h, !.exit = e, !.stderr = err] :
      s \in Streams, h \in BOOLEAN, e \in WaitOutcomes, err \in StderrTexts }

\* The except clauses of execute_claude_command (claude.py:154-163).
TimeoutError == <<"Claude command timed out after ", "600", " seconds">>

ExecutionError(e) == <<"Error executing Claude command: ", e>>

\* The body of the loop after the line is stored (claude.py:106-124).
parse_line_first_result(inv, line) ==
  CASE line.kind = "object" ->
         [inv EXCEPT
            !.session_id = IF line.session_id # Absent THEN line.session_id ELSE @,
            !.output_text = IF line.result # Absent /\ @ = <<>> THEN line.result ELSE @]
    [] line.kind = "text" -> inv
    [] OTHER ->
         [inv EXCEPT !.pc = "returned",
                     !.ret = <<FALSE, ExecutionError("TypeError"), None>>]

parse_line_text_fails(inv, line) ==
  CASE line.kind = "object" ->
         [inv EXCEPT
            !.session_id = IF line.session_id # Absent THEN line.session_id ELSE @,
            !.output_text = IF line.result # Absent THEN line.result ELSE @]
    [] OTHER ->
         [inv EXCEPT !.pc = "returned",
                     !.ret = <<FALSE, ExecutionError("JSONDecodeError"), None>>]

parse_line(inv, line) ==
  CASE line.kind = "object" ->
         [inv EXCEPT
            !.session_id = IF line.session_id # Absent THEN line.session_id ELSE @,
            !.output_text = IF line.result # Absent THEN line.result ELSE @]
    [] line.kind = "text" -> inv
    [] OTHER ->
         [inv EXCEPT !.pc = "returned",
                     !.ret = <<FALSE, ExecutionError("TypeError"), None>>]

\* One pass of "for line in process.stdout" (claude.py:98-124).
ReadLine ==
  /\ invoker.pc = "streaming"
  /\ invoker.stdout # <<>>
  /\ LET line == Head(invoker.stdout)
         read == [invoker EXCEPT !.stdout = Tail(@),
                                 !.all_lines = Append(@, line),
                                 !.jsonl = Append(@, line)]
     IN invoker' = parse_line(read, line)
  /\ UNCHANGED <<pc, args, command, branch_name, plan_file, result, trace,
                 classify_call, issue_comments, worktree, branches, head, commits,
                 request, decision, hpc, reply, procs, resolver, parser,
                 tunnel, locator, committer>>

\* The timeout budget passes while the loop is still reading, or waiting
\* to read, the output of the process.
BudgetExpires ==
  /\ invoker.pc = "streaming"
  /\ ~invoker.expired
  /\ invoker' = [invoker EXCEPT !.expired = TRUE]
  /\ UNCHANGED <<pc, args, command, branch_name, plan_file, result, trace,
                 classify_call, issue_comments, worktree, branches, head, commits,
                 request, decision, hpc, reply, procs, resolver, parser,
                 tunnel, locator, committer>>

\* Closing the transcript and renaming it (claude.py:129-138).
close_jsonl(inv) ==
  [inv EXCEPT !.jsonl_open = FALSE,
              !.jsonl_name = IF Truthy(inv.session_id)
                             THEN FinalJsonl(inv.session_id) ELSE @]

\* The check of the return code (claude.py:140-152).
check_returncode_ignored(inv) ==
  [inv EXCEPT !.pc = "returned",
              !.ret = <<TRUE, inv.output_text, inv.session_id>>]

check_returncode(inv) ==
  IF inv.returncode # "0"
  THEN [inv EXCEPT
          !.pc = "returned",
          !.ret = <<FALSE, <<"Claude command failed with code ", inv.returncode, ": ">>
                             \o inv.stderr, None>>]
  ELSE [inv EXCEPT !.pc = "returned",
                   !.ret = <<TRUE, inv.output_text, inv.session_id>>]

\* After the loop (claude.py:126-163): the loop ends when the process has
\* closed its output; wait, close and rename the transcript, check the
\* return code.
WaitProcess ==
  /\ invoker.pc = "streaming"
  /\ invoker.stdout = <<>>
  /\ ~invoker.holds
  /\ invoker' =
       IF invoker.exit = "timeout"
       THEN [invoker EXCEPT !.pc = "returned", !.expired = TRUE,
                            !.ret = <<FALSE, TimeoutError, None>>]
       ELSE check_returncode(close_jsonl([invoker EXCEPT !.returncode = invoker.exit]))
  /\ UNCHANGED <<pc, args, command, branch_name, plan_file, result, trace,
                 classify_call, issue_comments, worktree, branches, head, commits,
                 request, decision, hpc, reply, procs, resolver, parser,
                 tunnel, locator, committer>>

----------------------------------------------------------------------------
(* The tunnel and the webhooks: ensure_webhook_configured,                 *)
(* remove_devtunnel_webhooks, cleanup_resources                            *)

\* How often the watcher server is started.
MaxStarts == 2

\* Webhook URLs: two URLs of the tunnel, one of another service, and one
\* of another service in whose path the vendor's domain is written.
Url1 == <<"https://", "abc-8001.", "devtunnels.ms", "/gh-webhook">>

Url2 == <<"https://", "xyz-8001.", "devtunnels.ms", "/gh-webhook">>

OtherUrl == <<"https://", "ci.example.com", "/hook">>

RelayUrl == <<"https://", "relay.example.com", "/to/", "devtunnels.ms", "/hook">>

\* "devtunnels.ms" in url
IsVendorUrl(url) == Contains(url, "devtunnels.ms")

IsVendorHook(hook) == IsVendorUrl(hook.url)

\* The webhooks a repository may have before the watcher has run.
InitialHooks ==
  { <<>>,
    <<[id |-> 1, url |-> OtherUrl]>>,
    <<[id |-> 2, url |-> Url2]>>,
    <<[id |-> 1, url |-> OtherUrl], [id |-> 2, url |-> Url2]>>,
    <<[id |-> 1, url |-> RelayUrl]>> }

\* The last call of ensure_webhook_configured when nothing has changed the
\* webhooks or the URL of the tunnel since.
NoEnsure == [url |-> <<>>, ret |-> FALSE]

\* server and host are the watcher server and the tunnel host process it
\* started (devtunnel_process); exists says that the tunnel resource
\* exists; op, log and ret are the last operation, the calls it made to the
\* provider and to the tunnel CLI, and what ensure returned; ensured and
\* second say that the last start called ensure, and that this call came
\* right after a call that returned True for the same URL.
NoTunnel ==
  [provider |-> "github", url |-> Url1, hooks |-> <<>>, next_id |-> 3,
   exists |-> FALSE, server |-> "off", host |-> "none", starts |-> 0,
   op |-> "none", code |-> 0, log |-> <<>>, ret |-> FALSE, ensured |-> FALSE, second |-> FALSE,
   prev |-> NoEnsure]

Tunnels ==
  { [NoTunnel EXCEPT !.provider = p, !.hooks = h, !.exists = e] :
      p \in Providers, h \in InitialHooks, e \in BOOLEAN }

\* A call to the provider or to the tunnel CLI and whether it succeeded.
Entry(op, id, ok) == [op |-> op, id |-> id, ok |-> ok]

\* list_github_webhooks / list_gitlab_webhooks: the webhooks, or the empty
\* list when the call fails.
list_webhooks(hooks, ok) == IF ok THEN hooks ELSE <<>>

\* remove_devtunnel_webhooks: every listed webhook of the vendor's domain
\* is deleted; deletable are the ids whose deletion succeeds.
remove_devtunnel_webhooks(hooks, list_ok, deletable) ==
  LET listed == SelectSeq(list_webhooks(hooks, list_ok), IsVendorHook)
      Stays(hook) == ~(list_ok /\ IsVendorHook(hook) /\ hook.id \in deletable)
  IN [hooks |-> SelectSeq(hooks, Stays),
      log |-> <<Entry("list", 0, list_ok)>> \o
              [i \in 1..Len(listed) |->
                 Entry("delete", listed[i].id, listed[i].id \in deletable)]]

\* ensure_webhook_configured(repo_path, webhook_url), given the outcomes of
\* its calls: the webhooks afterwards, the next id the provider gives, the
\* value returned and the calls made.
ensure_webhook_configured(hooks, next_id, webhook_url, list_ok, list2_ok, deletable, create_ok) ==
  LET webhooks == list_webhooks(hooks, list_ok)
  IN IF \E i \in 1..Len(webhooks) : webhooks[i].url = webhook_url
     THEN [hooks |-> hooks, next_id |-> next_id, ret |-> TRUE,
           log |-> <<Entry("list", 0, list_ok)>>]
     ELSE LET removed == remove_devtunnel_webhooks(hooks, list2_ok, deletable)
          IN [hooks |-> IF create_ok
                        THEN Append(removed.hooks, [id |-> next_id, url |-> webhook_url])
                        ELSE removed.hooks,
              next_id |-> IF create_ok THEN next_id + 1 ELSE next_id,
              ret |-> create_ok,
              log |-> <<Entry("list", 0, list_ok)>> \o removed.log \o
                      <<Entry("create", IF create_ok THEN next_id ELSE 0, create_ok)>>]

HookIds(hooks) == { hooks[i].id : i \in 1..Len(hooks) }

\* The watcher command without --remove up to uvicorn.run, given the results
\* of the calls it makes: the calls made in their order, whether the tunnel
\* exists afterwards, and the exit code (0 stands for: the server is run).
watcher_without_login_recheck(exists, installed, authenticated, login, verified, shown, created, url_ok) ==
  LET check == <<Entry("check_devtunnel_installed", 0, installed)>>
      auth == check \o <<Entry("check_devtunnel_authenticated", 0, authenticated)>>
      logged == IF authenticated THEN auth
                ELSE auth \o <<Entry("login_devtunnel", 0, login)>>
      show == logged \o <<Entry("show_devtunnel", 0, exists /\ shown)>>
      create == IF exists /\ shown THEN show
                ELSE show \o <<Entry("create_devtunnel", 0, ~exists /\ created)>>
      url == create \o <<Entry("get_webhook_url_from_tunnel", 0, url_ok)>>
  IN CASE ~installed -> [log |-> check, exists |-> exists, code |-> 1]
       [] ~authenticated /\ ~login -> [log |-> logged, exists |-> exists, code |-> 1]
       [] ~(exists /\ shown) /\ ~(~exists /\ created) ->
            [log |-> create, exists |-> exists, code |-> 1]
       [] ~url_ok -> [log |-> url, exists |-> TRUE, code |-> 1]
       [] OTHER -> [log |-> url, exists |-> TRUE, code |-> 0]

watcher(exists, installed, authenticated, login, verified, shown, created, url_ok) ==
  LET check == <<Entry("check_devtunnel_installed", 0, installed)>>
      auth == check \o <<Entry("check_devtunnel_authenticated", 0, authenticated)>>
      logged == IF authenticated THEN auth
                ELSE auth \o <<Entry("login_devtunnel", 0, login)>>
      recheck == IF authenticated \/ ~login THEN logged
                 ELSE logged \o <<Entry("check_devtunnel_authenticated", 0, verified)>>
      show == recheck \o <<Entry("show_devtunnel", 0, exists /\ shown)>>
      create == IF exists /\ shown THEN show
                ELSE show \o <<Entry("create_devtunnel", 0, ~exists /\ created)>>
      url == create \o <<Entry("get_webhook_url_from_tunnel", 0, url_ok)>>
  IN CASE ~installed -> [log |-> check, exists |-> exists, code |-> 1]
       [] ~authenticated /\ ~login -> [log |-> logged, exists |-> exists, code |-> 1]
       [] ~authenticated /\ ~verified -> [log |-> recheck, exists |-> exists, code |-> 1]
       [] ~(exists /\ shown) /\ ~(~exists /\ created) ->
            [log |-> create, exists |-> exists, code |-> 1]
       [] ~url_ok -> [log |-> url, exists |-> TRUE, code |-> 1]
       [] OTHER -> [log |-> url, exists |-> TRUE, code |-> 0]

\* The command "watcher": the checks before the server, then either
\* sys.exit(1) or uvicorn.run, whose startup handler is configure_webhook.
WatcherStart ==
  /\ tunnel.server = "off"
  /\ tunnel.starts < MaxStarts
  /\ \E installed \in BOOLEAN, authenticated \in BOOLEAN, login \in BOOLEAN,
        verified \in BOOLEAN, shown \in BOOLEAN, created \in BOOLEAN,
        url_ok \in BOOLEAN :
       LET res == watcher(tunnel.exists, installed, authenticated, login,
                          verified, shown, created, url_ok)
       IN tunnel' = [tunnel EXCEPT !.server = IF res.code = 0 THEN "starting" ELSE "off",
                                   !.starts = IF res.code = 0 THEN @ ELSE @ + 1,
                                   !.exists = res.exists,
                                   !.op = IF res.code = 0 THEN "watcher" ELSE "exit",
                                   !.code = res.code, !.log = res.log,
                                   !.ensured = FALSE, !.second = FALSE]
  /\ UNCHANGED <<pc, args, command, branch_name, plan_file, result, trace,
                 classify_call, issue_comments, worktree, branches, head, commits,
                 request, decision, hpc, reply, procs, resolver, invoker, parser, locator, committer>>

\* The startup handler configure_webhook of the server: the tunnel host is
\* started and, when it runs and the webhook URL is known, the webhook is
\* ensured.
configure_webhook ==
  /\ tunnel.server = "starting"
  /\ \E host_started \in BOOLEAN, url_known \in BOOLEAN,
        list_ok \in BOOLEAN, list2_ok \in BOOLEAN, create_ok \in BOOLEAN,
        deletable \in SUBSET HookIds(tunnel.hooks) :
       LET started == [tunnel EXCEPT !.server = "running", !.starts = @ + 1,
                                     !.host = IF host_started THEN "running" ELSE "none",
                                     !.op = "start", !.log = <<>>, !.ret = FALSE,
                                     !.ensured = FALSE, !.second = FALSE]
           res == ensure_webhook_configured(tunnel.hooks, tunnel.next_id, tunnel.url,
                                            list_ok, list2_ok, deletable, create_ok)
       IN tunnel' =
            IF host_started /\ url_known
            THEN [started EXCEPT !.hooks = res.hooks, !.next_id = res.next_id,
                                 !.ret = res.ret, !.log = res.log, !.ensured = TRUE,
                                 !.second = (tunnel.prev = [url |-> tunnel.url, ret |-> TRUE]),
                                 !.prev = [url |-> tunnel.url, ret |-> res.ret]]
            ELSE started
  /\ UNCHANGED <<pc, args, command, branch_name, plan_file, result, trace,
                 classify_call, issue_comments, worktree, branches, head, commits,
                 request, decision, hpc, reply, procs, resolver, invoker, parser, locator, committer>>

\* The tunnel gets another URL (it was deleted and created again).
UrlChanges ==
  /\ tunnel.server = "off"
  /\ tunnel' = [tunnel EXCEPT !.url = IF @ = Url1 THEN Url2 ELSE Url1,
                              !.prev = NoEnsure]
  /\ UNCHANGED <<pc, args, command, branch_name, plan_file, result, trace,
                 classify_call, issue_comments, worktree, branches, head, commits,
                 request, decision, hpc, reply, procs, resolver, invoker, parser, locator, committer>>

\* The first part of cleanup_resources: the host process of this watcher is
\* terminated, and killed when it has not exited after five seconds.
stop_host(host, exits) ==
  IF host = "running"
  THEN <<Entry("terminate", 0, TRUE)>> \o
       (IF exits THEN <<>> ELSE <<Entry("kill", 0, TRUE)>>)
  ELSE <<>>

\* The second part of cleanup_resources, under "if remove_all:".  The
\* GitHub watcher calls remove_devtunnel_webhooks(repo_path, silent=False),
\* which webhook.py defines with the one parameter repo_path: the call
\* raises TypeError and the except clause ends the cleanup.
cleanup_remove_all(t, repo_url, list_ok, deletable, delete_ok) ==
  CASE repo_url = "ValueError" ->
         [t EXCEPT !.log = @ \o <<Entry("get_repo_url", 0, FALSE)>>]
    [] t.provider = "github" ->
         [t EXCEPT !.log = @ \o <<Entry("get_repo_url", 0, TRUE),
                                  Entry("remove_devtunnel_webhooks", 0, FALSE)>>]
    [] OTHER ->
         LET removed == remove_devtunnel_webhooks(t.hooks, list_ok, deletable)
         IN [t EXCEPT !.hooks = removed.hooks,
                      !.exists = IF delete_ok THEN FALSE ELSE @,
                      !.log = @ \o <<Entry("get_repo_url", 0, TRUE),
                                     Entry("remove_devtunnel_webhooks", 0, TRUE)>>
                                \o removed.log
                                \o <<Entry("delete_devtunnel", 0, delete_ok)>>]

ServerStop_remove_all ==
  /\ tunnel.server \in {"starting", "running"}
  /\ \E exits \in BOOLEAN, repo_url \in get_repo_url, list_ok \in BOOLEAN,
        delete_ok \in BOOLEAN, deletable \in SUBSET HookIds(tunnel.hooks) :
       tunnel' = cleanup_remove_all([tunnel EXCEPT !.server = "off", !.host = "none",
                                           !.op = "stop",
                                           !.log = stop_host(tunnel.host, exits)],
                                    repo_url, list_ok, deletable, delete_ok)
  /\ UNCHANGED <<pc, args, command, branch_name, plan_file, result, trace,
                 classify_call, issue_comments, worktree, branches, head, commits,
                 request, decision, hpc, reply, procs, resolver, invoker, parser, locator, committer>>

\* The server stops by SIGINT, SIGTERM or the end of uvicorn.run:
\* cleanup_resources(tunnel_id, remove_all=False), the server being started
\* only without --remove.
ServerStop ==
  /\ tunnel.server \in {"starting", "running"}
  /\ \E exits \in BOOLEAN :
       tunnel' = [tunnel EXCEPT !.server = "off", !.host = "none", !.op = "stop",
                                !.log = stop_host(tunnel.host, exits)]
  /\ UNCHANGED <<pc, args, command, branch_name, plan_file, result, trace,
                 classify_call, issue_comments, worktree, branches, head, commits,
                 request, decision, hpc, reply, procs, resolver, invoker, parser, locator, committer>>

\* The command "watcher --remove": cleanup_resources(tunnel_id,
\* remove_all=True) in a process of its own, which has started no host.
WatcherRemove ==
  /\ tunnel.op # "remove"
  /\ \E exits \in BOOLEAN, repo_url \in get_repo_url, list_ok \in BOOLEAN,
        delete_ok \in BOOLEAN, deletable \in SUBSET HookIds(tunnel.hooks) :
       tunnel' = cleanup_remove_all([tunnel EXCEPT !.op = "remove", !.prev = NoEnsure,
                                           !.log = stop_host("none", exits)],
                                    repo_url, list_ok, deletable, delete_ok)
  /\ UNCHANGED <<pc, args, command, branch_name, plan_file, result, trace,
                 classify_call, issue_comments, worktree, branches, head, commits,
                 request, decision, hpc, reply, procs, resolver, invoker, parser, locator, committer>>

----------------------------------------------------------------------------
(* locate_plan_file on the listings of git status *)

\* How many lines a listing has at most.
MaxListing == 3

\* Lines of git status --porcelain: new plan files in the two
\* specification directories, one of them staged; a tracked document of
\* specs/ that was edited; an edited source file; a new markdown file of
\* another directory whose name ends in "specs"; a new file of specs/ that
\* is not markdown.
StatusLines ==
  { PlanLine("r1"),
    [xy |-> "??", path |-> <<"specs/", "plan", ".md">>],
    [xy |-> "A ", path |-> <<"specs/", "staged", ".md">>],
    [xy |-> " M", path |-> <<"specs/", "README", ".md">>],
    CodeLine,
    [xy |-> "??", path |-> <<"docs/my", "specs/", "notes", ".md">>],
    [xy |-> "??", path |-> <<"specs/", "diagram", ".png">>] }

\* The listings: every file is listed once.
Listings ==
  { l \in UNION { [1..n -> StatusLines] : n \in 0..MaxListing } :
      \A i, j \in 1..Len(l) : i # j => l[i] # l[j] }

NoLocate == [pc |-> "off", status_ok |-> TRUE, lines |-> <<>>, ret |-> <<None, None>>]

LocateCalls ==
  { [NoLocate EXCEPT !.pc = "called", !.status_ok = ok, !.lines = l] :
      ok \in BOOLEAN, l \in Listings }

\* A call of locate_plan_file.
Locate ==
  /\ locator.pc = "called"
  /\ locator' = [locator EXCEPT !.pc = "returned",
                                !.ret = locate_plan_file(locator.status_ok, locator.lines)]
  /\ UNCHANGED <<pc, args, command, branch_name, plan_file, result, trace,
                 classify_call, issue_comments, worktree, branches, head, commits,
                 request, decision, hpc, reply, procs, resolver, invoker, parser,
                 tunnel, committer>>

----------------------------------------------------------------------------
(* commit_changes on a working tree *)

NoCommit == [pc |-> "off", lines |-> <<>>, calls |-> <<>>, tree |-> <<>>,
             ret |-> <<FALSE, None>>]

CommitCalls == { [NoCommit EXCEPT !.pc = "called", !.lines = l] : l \in Listings }

\* A call of commit_changes: the sub-steps run, the working tree and the
\* commits afterwards, and the pair returned.
Commit ==
  /\ committer.pc = "called"
  /\ \E failing \in CommitFailing(committer.lines) :
       /\ committer' = [committer EXCEPT
                          !.pc = "returned",
                          !.calls = commit_subprocesses(failing),
                          !.tree = TreeAfterCommit(committer.lines, failing),
                          !.ret = commit_changes(failing)]
       /\ commits' = CommitsAfterCommit("r1", committer.lines, failing)
  /\ UNCHANGED <<pc, args, command, branch_name, plan_file, result, trace,
                 classify_call, issue_comments, worktree, branches, head,
                 request, decision, hpc, reply, procs, resolver, invoker, parser,
                 tunnel, locator>>

----------------------------------------------------------------------------
(* Specification *)

NoArgs == [provider |-> "github", adw_id |-> "", explicit_command |-> None,
           plan_only |-> FALSE, issue_number |-> None, project_path |-> <<>>]

NoCall == [called |-> FALSE, response |-> [success |-> FALSE, output |-> <<>>],
           ret |-> <<None, None>>]

\* The checkout when the server starts: clean, or holding the uncommitted
\* plan file an earlier failed run left behind.
StalePlanLine == [xy |-> "??", path |-> <<"ai-", "specs/", "issue-99-", "adw-0ld0ld00", ".md">>]

InitialTrees == { <<>>, <<StalePlanLine>> }

\* No request is being handled, nothing is being resolved or invoked.
InitEnv ==
  /\ request = [q \in Runs |-> NoRequest]
  /\ decision = [q \in Runs |-> NoTrigger(None)]
  /\ hpc = [q \in Runs |-> "off"]
  /\ reply = [q \in Runs |-> NoReply]
  /\ procs = <<>>
  /\ resolver = NoResolution
  /\ invoker = NoInvocation
  /\ parser = NoParse
  /\ tunnel = NoTunnel
  /\ locator = NoLocate
  /\ committer = NoCommit

\* No run has done anything yet.
InitRuns ==
  /\ args = [r \in Runs |-> NoArgs]
  /\ command = [r \in Runs |-> None]
  /\ branch_name = [r \in Runs |-> None]
  /\ plan_file = [r \in Runs |-> None]
  /\ result = [r \in Runs |-> NoResult]
  /\ trace = [r \in Runs |-> <<>>]
  /\ classify_call = [r \in Runs |-> NoCall]
  /\ issue_comments = <<>>
  /\ worktree \in InitialTrees
  /\ branches = {<<"main">>}
  /\ head = <<"main">>
  /\ commits = <<>>

Init ==
  /\ pc = [r \in Runs |-> IF r = "r1" THEN "idle" ELSE "off"]
  /\ InitRuns
  /\ InitEnv

Next ==
  \E r \in Runs :
    \/ Launch(r)
    \/ CheckInstalled(r)
    \/ DetermineCommand(r)
    \/ CreateBranch(r)
    \/ BuildPlan(r)
    \/ CommitPlan(r)
    \/ LocatePlanFile(r)
    \/ Implement(r)
    \/ CommitAll(r)
    \/ OpenRequest(r)

Spec == Init /\ [][Next]_vars

\* A started run is scheduled until it ends: its thread runs whenever it can.
FairSpec == Spec /\ WF_vars(Next)

\* The server handling one request: the handler and, if it accepts, the
\* run it starts.
InitDispatch ==
  /\ pc = [r \in Runs |-> "off"]
  /\ InitRuns
  /\ request = [q \in Runs |-> NoRequest]
  /\ decision = [q \in Runs |-> NoTrigger(None)]
  /\ hpc = [q \in Runs |-> IF q = "r1" THEN "waiting" ELSE "off"]
  /\ reply = [q \in Runs |-> NoReply]
  /\ procs = <<>>
  /\ resolver = NoResolution
  /\ invoker = NoInvocation
  /\ parser = NoParse
  /\ tunnel = NoTunnel
  /\ locator = NoLocate
  /\ committer = NoCommit

NextDispatch ==
  \E q \in Runs :
    \/ gitlab_webhook(q)
    \/ github_webhook(q)
    \/ webhook_return(q)
    \/ CheckInstalled(q)
    \/ DetermineCommand(q)
    \/ CreateBranch(q)
    \/ BuildPlan(q)
    \/ CommitPlan(q)
    \/ LocatePlanFile(q)
    \/ Implement(q)
    \/ CommitAll(q)
    \/ OpenRequest(q)

SpecDispatch == InitDispatch /\ [][NextDispatch]_vars

\* The server handling two requests at once: both handlers, and the runs
\* they start up to the step that reads the command of the event.
InitConcurrent ==
  /\ pc = [r \in Runs |-> "off"]
  /\ InitRuns
  /\ request = [q \in Runs |-> NoRequest]
  /\ decision = [q \in Runs |-> NoTrigger(None)]
  /\ hpc = [q \in Runs |-> "waiting"]
  /\ reply = [q \in Runs |-> NoReply]
  /\ procs = <<>>
  /\ resolver = NoResolution
  /\ invoker = NoInvocation
  /\ parser = NoParse
  /\ tunnel = NoTunnel
  /\ locator = NoLocate
  /\ committer = NoCommit

NextConcurrent ==
  \E q \in Runs :
    \/ concurrent_webhook(q)
    \/ webhook_return(q)
    \/ CheckInstalled(q)
    \/ DetermineCommand(q)

SpecConcurrent == InitConcurrent /\ [][NextConcurrent]_vars

\* One resolution of a command.
InitResolver ==
  /\ pc = [r \in Runs |-> "off"]
  /\ InitRuns
  /\ request = [q \in Runs |-> NoRequest]
  /\ decision = [q \in Runs |-> NoTrigger(None)]
  /\ hpc = [q \in Runs |-> "off"]
  /\ reply = [q \in Runs |-> NoReply]
  /\ procs = <<>>
  /\ resolver \in Resolutions
  /\ invoker = NoInvocation
  /\ parser = NoParse
  /\ tunnel = NoTunnel
  /\ locator = NoLocate
  /\ committer = NoCommit

NextResolver == Resolve

SpecResolver == InitResolver /\ [][NextResolver]_vars

\* One invocation of the agent.
InitInvoker ==
  /\ pc = [r \in Runs |-> "off"]
  /\ InitRuns
  /\ request = [q \in Runs |-> NoRequest]
  /\ decision = [q \in Runs |-> NoTrigger(None)]
  /\ hpc = [q \in Runs |-> "off"]
  /\ reply = [q \in Runs |-> NoReply]
  /\ procs = <<>>
  /\ resolver = NoResolution
  /\ invoker \in Invocations
  /\ parser = NoParse
  /\ tunnel = NoTunnel
  /\ locator = NoLocate
  /\ committer = NoCommit

NextInvoker == ReadLine \/ BudgetExpires \/ WaitProcess

SpecInvoker == InitInvoker /\ [][NextInvoker]_vars

\* The loop and the wait go on whenever they can; time passes.
FairSpecInvoker == SpecInvoker /\ WF_vars(NextInvoker)

\* One call of the Comment Parser.
InitParser ==
  /\ pc = [r \in Runs |-> "off"]
  /\ InitRuns
  /\ request = [q \in Runs |-> NoRequest]
  /\ decision = [q \in Runs |-> NoTrigger(None)]
  /\ hpc = [q \in Runs |-> "off"]
  /\ reply = [q \in Runs |-> NoReply]
  /\ procs = <<>>
  /\ resolver = NoResolution
  /\ invoker = NoInvocation
  /\ parser \in ParseCalls
  /\ tunnel = NoTunnel
  /\ locator = NoLocate
  /\ committer = NoCommit

NextParser == Parse

SpecParser == InitParser /\ [][NextParser]_vars

\* The watcher command run several times on one repository.
InitTunnel ==
  /\ pc = [r \in Runs |-> "off"]
  /\ InitRuns
  /\ request = [q \in Runs |-> NoRequest]
  /\ decision = [q \in Runs |-> NoTrigger(None)]
  /\ hpc = [q \in Runs |-> "off"]
  /\ reply = [q \in Runs |-> NoReply]
  /\ procs = <<>>
  /\ resolver = NoResolution
  /\ invoker = NoInvocation
  /\ parser = NoParse
  /\ tunnel \in Tunnels
  /\ locator = NoLocate
  /\ committer = NoCommit

NextTunnel == WatcherStart \/ configure_webhook \/ UrlChanges \/ ServerStop \/ WatcherRemove

SpecTunnel == InitTunnel /\ [][NextTunnel]_vars

\* locate_plan_file called on a listing.
InitLocate ==
  /\ pc = [r \in Runs |-> "off"]
  /\ InitRuns
  /\ request = [q \in Runs |-> NoRequest]
  /\ decision = [q \in Runs |-> NoTrigger(None)]
  /\ hpc = [q \in Runs |-> "off"]
  /\ reply = [q \in Runs |-> NoReply]
  /\ procs = <<>>
  /\ resolver = NoResolution
  /\ invoker = NoInvocation
  /\ parser = NoParse
  /\ tunnel = NoTunnel
  /\ locator \in LocateCalls
  /\ committer = NoCommit

NextLocate == Locate

SpecLocate == InitLocate /\ [][NextLocate]_vars

\* commit_changes called on a working tree.
InitCommit ==
  /\ pc = [r \in Runs |-> "off"]
  /\ InitRuns
  /\ request = [q \in Runs |-> NoRequest]
  /\ decision = [q \in Runs |-> NoTrigger(None)]
  /\ hpc = [q \in Runs |-> "off"]
  /\ reply = [q \in Runs |-> NoReply]
  /\ procs = <<>>
  /\ resolver = NoResolution
  /\ invoker = NoInvocation
  /\ parser = NoParse
  /\ tunnel = NoTunnel
  /\ locator = NoLocate
  /\ committer \in CommitCalls

NextCommit == Commit

SpecCommit == InitCommit /\ [][NextCommit]_vars

----------------------------------------------------------------------------
(* Reading the record of a run *)

IsStep(e) == e.ev = "step"

\* A call of make_issue_comment, whether it posted or ended the thread.
IsCommentCall(e) == e.ev \in {"comment", "post_exit"}

IsPosted(e) == e.ev = "comment"

IsPostedFailure(e) == e.ev = "comment" /\ e.name = "failure"

Steps(r) == SelectSeq(trace[r], IsStep)

StepNames(r) == [i \in 1..Len(Steps(r)) |-> Steps(r)[i].name]

Invoked(r, name) == \E i \in 1..Len(trace[r]) : IsStep(trace[r][i]) /\ trace[r][i].name = name

Succeeded(r, name) ==
  \E i \in 1..Len(trace[r]) :
    IsStep(trace[r][i]) /\ trace[r][i].name = name /\ trace[r][i].err = None

Failed(r, name) ==
  \E i \in 1..Len(trace[r]) :
    IsStep(trace[r][i]) /\ trace[r][i].name = name /\ trace[r][i].err # None

Count(r, name) == Cardinality({ i \in 1..Len(trace[r]) :
                                  IsStep(trace[r][i]) /\ trace[r][i].name = name })

Ended(r) == pc[r] \in {"returned", "exited"}

StepOrder == <<"determine_command", "create_branch", "build_plan", "locate_plan_file",
               "implement", "commit", "open_request">>

IsPrefix(s, t) == Len(s) <= Len(t) /\ \A i \in 1..Len(s) : s[i] = t[i]

----------------------------------------------------------------------------
(* Claims *)

\* C1: whenever a pipeline step has failed, no later step is invoked (so the
\* step is not retried), exactly one failure comment of the run is on the
\* issue, and the run has ended by returning (False, error of that step).
C1_FailureShortCircuit ==
  \A r \in Runs : \A i \in 1..Len(trace[r]) :
    (IsStep(trace[r][i]) /\ trace[r][i].err # None) =>
      /\ \A j \in (i + 1)..Len(trace[r]) : ~IsStep(trace[r][j])
      /\ Len(SelectSeq(trace[r], IsPostedFailure)) = 1
      /\ pc[r] = "returned"
      /\ result[r] = Return(FALSE, trace[r][i].err)

\* C2: a plan-only run in which every step up to and including BUILD_PLAN
\* has succeeded, and whose commit step has not failed, ends by returning
\* (True, None) after exactly one commit step, and it never invokes
\* LOCATE_PLAN_FILE, IMPLEMENT or OPEN_REQUEST.
C2_PlanOnlyReachesDone ==
  \A r \in Runs :
    (args[r].plan_only /\ Succeeded(r, "build_plan")) =>
      /\ ~Invoked(r, "locate_plan_file")
      /\ ~Invoked(r, "implement")
      /\ ~Invoked(r, "open_request")
      /\ (Ended(r) /\ ~Failed(r, "commit")) =>
           (result[r] = Return(TRUE, None) /\ Count(r, "commit") = 1)

\* C3: in a full-mode run the steps are invoked in the order of StepOrder,
\* each at most once, and every step after the first is invoked right after
\* the progress comment of the step before it was posted, that step having
\* returned success; the first step follows the successful precondition
\* check.
C3_StrictOrder ==
  \A r \in Runs :
    (pc[r] # "idle" /\ ~args[r].plan_only) =>
      /\ IsPrefix(StepNames(r), StepOrder)
      /\ \A i \in 1..Len(trace[r]) :
           IsStep(trace[r][i]) =>
             IF trace[r][i].name = "determine_command"
             THEN i = 2 /\ trace[r][1].ev = "check" /\ trace[r][1].err = None
             ELSE /\ i > 3
                  /\ trace[r][i - 1].ev = "comment"
                  /\ trace[r][i - 1].name = "progress"
                  /\ IsStep(trace[r][i - 2])
                  /\ trace[r][i - 2].err = None

C3_Witness ==
  \E r \in Runs : ~args[r].plan_only /\ Succeeded(r, "open_request")

\* C4: a full-mode run in which every step has succeeded has performed
\* exactly one commit step, after IMPLEMENT succeeded and before
\* OPEN_REQUEST was invoked.
C4_SingleCommit ==
  \A r \in Runs :
    (~args[r].plan_only /\ Succeeded(r, "open_request")) =>
      /\ Count(r, "commit") = 1
      /\ \E i, j, k \in 1..Len(trace[r]) :
           /\ i < j /\ j < k
           /\ IsStep(trace[r][i]) /\ trace[r][i].name = "implement"
           /\ trace[r][i].err = None
           /\ IsStep(trace[r][j]) /\ trace[r][j].name = "commit"
           /\ IsStep(trace[r][k]) /\ trace[r][k].name = "open_request"
      /\ Cardinality({ c \in 1..Len(commits) : commits[c].run = r }) = 1

C4_Witness ==
  \E r \in Runs : ~args[r].plan_only /\ Succeeded(r, "open_request")
                  /\ result[r] = Return(TRUE, None)

\* C5 (as claimed): when IMPLEMENT has failed and the run has ended, the
\* branch created by CREATE_BRANCH is in place and some commit contains the
\* plan file.
C5_PlanCommitInPlace ==
  \A r \in Runs :
    (Failed(r, "implement") /\ Ended(r)) =>
      /\ branch_name[r] \in branches
      /\ \E c \in 1..Len(commits) : plan_file[r] \in commits[c].files

\* C5 (amended): when IMPLEMENT has failed, the run has ended, the branch
\* created by CREATE_BRANCH is in place, and the run has invoked no commit
\* step and made no commit: the plan is left uncommitted.
C5_BranchKeptPlanUncommitted ==
  \A r \in Runs :
    Failed(r, "implement") =>
      /\ Ended(r)
      /\ branch_name[r] \in branches
      /\ Count(r, "commit") = 0
      /\ \A c \in 1..Len(commits) : commits[c].run # r

C5_Witness ==
  \E r \in Runs : Failed(r, "implement") /\ pc[r] = "returned"
                  /\ plan_file[r] \in Paths(worktree)

CommentCalls(r) == SelectSeq(trace[r], IsCommentCall)

IsCompletedCall(e) == IsCommentCall(e) /\ e.name = "completed"

CheckFailed(r) == trace[r] # <<>> /\ trace[r][1].ev = "check" /\ trace[r][1].err # None

\* C6 (as claimed): the number of comments a run has posted equals the
\* number of steps it has taken.
C6_OneCommentPerTransition ==
  \A r \in Runs : Len(SelectSeq(trace[r], IsPosted)) = Len(Steps(r))

\* C6 (amended): every step taken is followed by exactly one call of
\* make_issue_comment for it, a progress comment if it succeeded and a
\* failure comment if it failed; the only other calls are the failure
\* comment of a failed precondition check, made before any step, and one
\* completion comment after the progress comment of the last step.  A run
\* that returns success has posted one comment more than it took steps.
C6_CommentCalls ==
  \A r \in Runs :
    /\ \A i \in 1..Len(trace[r]) :
         IsStep(trace[r][i]) =>
           /\ i < Len(trace[r])
           /\ IsCommentCall(trace[r][i + 1])
           /\ trace[r][i + 1].name = IF trace[r][i].err = None THEN "progress" ELSE "failure"
    /\ \A i \in 1..Len(trace[r]) :
         IsCommentCall(trace[r][i]) =>
           \/ i > 1 /\ IsStep(trace[r][i - 1])
           \/ i = 2 /\ CheckFailed(r) /\ trace[r][i].name = "failure"
           \/ /\ i > 2 /\ trace[r][i].name = "completed"
              /\ trace[r][i - 1].ev = "comment" /\ trace[r][i - 1].name = "progress"
              /\ IsStep(trace[r][i - 2])
              /\ trace[r][i - 2].name = IF args[r].plan_only THEN "commit" ELSE "open_request"
    /\ Len(CommentCalls(r)) = Len(Steps(r)) + Len(SelectSeq(trace[r], IsCompletedCall))
                              + (IF CheckFailed(r) THEN 1 ELSE 0)
    /\ result[r] = Return(TRUE, None) =>
         Len(SelectSeq(trace[r], IsPosted)) = Len(Steps(r)) + 1

C6_Witness ==
  \E r \in Runs : /\ result[r] = Return(TRUE, None)
                  /\ Len(SelectSeq(trace[r], IsPosted)) = Len(Steps(r)) + 1

\* C7: every comment on the issue carries the id of the run that posted it.
C7_EveryCommentTagged ==
  \A i \in 1..Len(issue_comments) :
    Contains(issue_comments[i].text, AdwIdOf[issue_comments[i].run])

\* C8: with an explicit command the classification is never invoked and the
\* explicit command is the one passed to CREATE_BRANCH and to BUILD_PLAN;
\* once the command has been determined, classification was invoked exactly
\* if no explicit command was given.
C8_ExplicitSkipsClassification ==
  \A r \in Runs :
    /\ args[r].explicit_command # None =>
         /\ ~classify_call[r].called
         /\ \A i \in 1..Len(trace[r]) :
              (IsStep(trace[r][i]) /\ trace[r][i].name \in {"create_branch", "build_plan"})
                => trace[r][i].text = args[r].explicit_command
    /\ Invoked(r, "determine_command") =>
         (classify_call[r].called <=> args[r].explicit_command = None)

C8_Witness ==
  \E r \in Runs : args[r].explicit_command = CHORE /\ Invoked(r, "build_plan")

\* C9: classification returns a command only if the invocation succeeded and
\* its output, stripped and lower-cased, is one of /feature, /bug, /chore,
\* and then returns that selector; a failed invocation returns no command
\* and the invocation's error; any other output returns no command and the
\* error "Invalid classification result: " followed by the stripped,
\* lower-cased output.
C9_Classification ==
  \A r \in Runs :
    classify_call[r].called =>
      LET response == classify_call[r].response
          ret == classify_call[r].ret
          value == lower(strip(response.output))
      IN /\ (ret[1] # None) <=> (response.success /\ value \in {FEATURE, BUG, CHORE})
         /\ (ret[1] # None) => (ret[1] = value /\ ret[2] = None)
         /\ ~response.success => ret = <<None, response.output>>
         /\ (response.success /\ value \notin {FEATURE, BUG, CHORE}) =>
              ret = <<None, <<"Invalid classification result: ">> \o value>>
         /\ (ret[1] = None) => (Ended(r) /\ ~Invoked(r, "create_branch"))
         /\ (response.success /\ response.output = <<" ", "/", "B", "u", "g", "\n">>)
              => ret = <<BUG, None>>

C9_Witness ==
  \E r \in Runs :
    /\ classify_call[r].called
    /\ classify_call[r].response.output = <<"/", "C", "H", "O", "R", "E">>
    /\ classify_call[r].ret = <<CHORE, None>>

\* C10: when the agent CLI is not installed the run takes no step and invokes
\* no classification, one failure comment is posted, and the run returns
\* (False, "Claude Code CLI is not installed").
C10_NotInstalledFailsFirst ==
  \A r \in Runs :
    CheckFailed(r) =>
      /\ Steps(r) = <<>>
      /\ ~classify_call[r].called
      /\ Len(SelectSeq(trace[r], IsPostedFailure)) = 1
      /\ result[r] = Return(FALSE, NotInstalledMsg)

----------------------------------------------------------------------------
(* Claims about the dispatcher, the resolver and the invoker *)

\* The handler of request q has come to its end: it has started the run or
\* returned a status object.
Handled(q) == hpc[q] \in {"respond", "done"}

\* A run was started for request q.
RunStarted(q) == pc[q] # "off"

\* C11: a handler that has started the run can always return at once,
\* whatever step the run is in; the acceptance payload it returns names the
\* run's own id, which no other run has, and the issue of the event; and a
\* status object, once returned, is never changed by what the run does.
C11_ReturnsWithoutWaiting ==
  /\ [](\A q \in Runs :
          /\ hpc[q] = "respond" => (RunStarted(q) /\ ENABLED webhook_return(q))
          /\ reply[q].status = "accepted" =>
               /\ RunStarted(q)
               /\ reply[q].adw_id = args[q].adw_id
               /\ \A o \in Runs \ {q} : args[o].adw_id # reply[q].adw_id
               /\ reply[q].issue = IssueRef
               /\ reply[q].reason \in {"New issue opened", "Comment with 'sdlc' trigger",
                                       "Comment with 'adw' command"})
  /\ [][\A q \in Runs : reply[q] # NoReply => reply'[q] = reply[q]]_vars

C11_Witness ==
  \E q \in Runs : /\ reply[q].status = "accepted"
                  /\ pc[q] = "implement"
                  /\ request[q].provider = "gitlab"

\* C12: no handler ends without returning a status object, and a request
\* whose body cannot be parsed gets the status "error".
C12_AlwaysReturnsStatus ==
  \A q \in Runs :
    /\ hpc[q] # "escaped"
    /\ (hpc[q] = "done" /\ ~request[q].json_ok) => reply[q].status = "error"

\* C13: a run that has ended without success has posted a failure comment.
C13_NoSilentEnd ==
  \A r \in Runs :
    (Ended(r) /\ result[r] # Return(TRUE, None)) =>
      \E i \in 1..Len(trace[r]) : IsPostedFailure(trace[r][i])

\* C14: every started run eventually returns (True, None) or (False, error).
C14_EventuallyDoneOrFailed ==
  \A r \in Runs : (pc[r] = "start") ~> (pc[r] = "returned" /\ result[r].returned)

\* The launch of the process failed: the script is missing or Popen raised.
LaunchFailed(q) ==
  /\ hpc[q] = "done" /\ ~RunStarted(q) /\ procs = <<>>
  /\ reply[q] \in {ScriptMissingReply, InternalErrorReply}

\* No run was started for q and the handler returned the status s.
NoRunAndStatus(q, s) ==
  hpc[q] = "done" /\ ~RunStarted(q) /\ procs = <<>> /\ reply[q].status = s

\* C15: the GitHub handler accepts issues/opened with an issue number: it
\* launches the process and returns "accepted" (unless the launch itself
\* fails); it ignores an issue_comment/created whose body, trimmed and
\* lower-cased, is not the trigger word; it acknowledges a ping with "ok";
\* it ignores every other event/action combination; and in the last three
\* cases no run is started.
C15_GithubDecision ==
  \A q \in Runs :
    (Handled(q) /\ request[q].provider = "github" /\ request[q].json_ok) =>
      LET ev == request[q]
          opened == ev.event_type = "issues" /\ ev.action = "opened"
                    /\ ev.issue_number = IssueRef
          comment == ev.event_type = "issue_comment" /\ ev.action = "created"
          trigger == ev.body \in {<<"a", "d", "w">>, <<" ", "A", "D", "W", "\n">>}
      IN /\ ev.event_type = "ping" => NoRunAndStatus(q, "ok")
         /\ opened =>
              \/ LaunchFailed(q)
              \/ /\ RunStarted(q)
                 /\ Len(procs) = 1
                 /\ hpc[q] = "done" => reply[q].status = "accepted"
         /\ (comment /\ ~trigger) => NoRunAndStatus(q, "ignored")
         /\ (ev.event_type # "ping" /\ ~opened /\ ~(comment /\ ev.issue_number = IssueRef))
              => NoRunAndStatus(q, "ignored")

C15_Witness ==
  \E q \in Runs :
    /\ request[q].provider = "github"
    /\ request[q].event_type = "issues" /\ request[q].action = "opened"
    /\ reply[q].status = "accepted"
    /\ RunStarted(q)

\* The handler could not fetch the issue and said so.
FetchFailed(q) == hpc[q] = "done" /\ ~RunStarted(q) /\ reply[q] = FetchFailedReply

\* C16: the GitLab handler accepts an issue event with action "open" and an
\* iid, and the run it starts has no explicit command and is in full mode,
\* whatever the text of the issue; an issue event with another action is
\* ignored and starts no run.
C16_GitlabIssueEvents ==
  \A q \in Runs :
    (/\ Handled(q) /\ request[q].provider = "gitlab" /\ request[q].json_ok
     /\ (request[q].event_type = "Issue Hook" \/ request[q].object_kind = "issue")) =>
      LET ev == request[q]
      IN /\ (ev.action = "open" /\ ev.iid = IssueRef) =>
              \/ FetchFailed(q)
              \/ /\ RunStarted(q)
                 /\ args[q].provider = "gitlab"
                 /\ args[q].explicit_command = None
                 /\ args[q].plan_only = FALSE
                 /\ hpc[q] = "done" =>
                      /\ reply[q].status = "accepted"
                      /\ reply[q].command = <<"auto-classify">>
                      /\ reply[q].plan_only = FALSE
         /\ ev.action # "open" => NoRunAndStatus(q, "ignored")

C16_Witness ==
  \E q \in Runs :
    /\ request[q].event_type = "Issue Hook"
    /\ request[q].description = CommandLikeText
    /\ reply[q].status = "accepted"
    /\ classify_call[q].called
    /\ Invoked(q, "locate_plan_file")

\* C17: the GitLab handler accepts a note event exactly if noteable_type is
\* Issue, the payload has an issue iid and the note contains "sdlc" in any
\* letter case; the run it starts has the explicit command and the
\* plan-only flag that parse_agent_command extracts from the note; every
\* other note is ignored and starts no run.
C17_GitlabNoteEvents ==
  \A q \in Runs :
    (/\ Handled(q) /\ request[q].provider = "gitlab" /\ request[q].json_ok
     /\ (request[q].event_type = "Note Hook" \/ request[q].object_kind = "note")) =>
      LET ev == request[q]
          parsed == parse_agent_command(ev.body)
          triggering == /\ ev.noteable_type = "Issue"
                        /\ ev.issue_iid = IssueRef
                        /\ ev.body # <<"p", "l", "e", "a", "s", "e", " ", "f", "i", "x">>
      IN /\ RunStarted(q) <=> triggering
         /\ RunStarted(q) =>
              /\ args[q].explicit_command = parsed[1]
              /\ args[q].plan_only = parsed[3]
              /\ hpc[q] = "done" =>
                   /\ reply[q].status = "accepted"
                   /\ reply[q].plan_only = parsed[3]
              /\ ev.body = <<"s", "d", "l", "c", " ", "/", "c", "h", "o", "r", "e", " ", "f", "i", "x", " ", "t", "h", "i", "s", " ", "b", "u", "g">>
                   => (args[q].explicit_command = CHORE /\ ~args[q].plan_only)
              /\ ev.body = <<"s", "d", "l", "c", " ", "/", "f", "e", "a", "t", "u", "r", "e", " ", "x", " ", "-", "-", "p", "l", "a", "n", "-", "o", "n", "l", "y">>
                   => (args[q].explicit_command = FEATURE /\ args[q].plan_only)
              /\ ev.body = <<"s", "d", "l", "c", " ", "p", "l", "e", "a", "s", "e">>
                   => (args[q].explicit_command = None /\ ~args[q].plan_only)
         /\ ~RunStarted(q) => NoRunAndStatus(q, "ignored")

C17_Witness ==
  \E q \in Runs :
    /\ request[q].event_type = "Note Hook"
    /\ request[q].body = <<"S", "D", "L", "C", " ", "/", "B", "u", "g", " ", "f", "i", "x", " ", "p", "l", "a", "n", " ", "o", "n", "l", "y">>
    /\ reply[q].status = "accepted"
    /\ args[q].plan_only
    /\ Invoked(q, "commit")

\* C18: when the base command is no user override, resolve returns
\* /sdlc:<command> if that plugin command exists and the base command
\* unchanged if it does not; it returns nothing else.
C18_ResolverFallback ==
  (resolver.pc = "returned" /\ Tail(resolver.base_command) \notin resolver.user_commands) =>
    /\ resolver.resolved =
         IF Tail(resolver.base_command) \in resolver.plugin_files
         THEN <<"/", "s", "d", "l", "c", ":">> \o Tail(resolver.base_command)
         ELSE resolver.base_command
    /\ (resolver.base_command = LOCATE /\ Tail(LOCATE) \in resolver.plugin_files)
         => resolver.resolved = <<"/", "s", "d", "l", "c", ":", "l", "o", "c", "a", "t", "e">>

C18_Witness ==
  /\ resolver.pc = "returned"
  /\ resolver.base_command = FEATURE
  /\ resolver.user_commands = {}
  /\ resolver.resolved = <<"/", "s", "d", "l", "c", ":", "f", "e", "a", "t", "u", "r", "e">>

\* C19: when a user-defined command with the base name exists, the
\* existence check reports it and resolve returns the base command
\* unchanged, whether or not the plugin command exists too.
C19_UserOverride ==
  (resolver.pc = "returned" /\ Tail(resolver.base_command) \in resolver.user_commands) =>
    /\ resolver.exists
    /\ resolver.resolved = resolver.base_command

\* The session ids of the lines read so far, in the order of the lines.
IsSessionLine(line) == line.kind = "object" /\ line.session_id # Absent

SessionLines == SelectSeq(invoker.all_lines, IsSessionLine)

\* C20: the session id a successful invocation returns is the one of the
\* first line that carries a session_id.
C20_FirstSessionIdWins ==
  (invoker.pc = "returned" /\ invoker.ret[1] /\ SessionLines # <<>>) =>
    invoker.ret[3] = SessionLines[1].session_id

\* The lines read so far that carry a result, in the order of the lines.
IsResultLine(line) == line.kind = "object" /\ line.result # Absent

ResultLines == SelectSeq(invoker.all_lines, IsResultLine)

\* C21: the output text a successful invocation returns is the result of
\* the last line that carries a result, and the empty text when no line
\* carries one.
C21_LastResultWins ==
  (invoker.pc = "returned" /\ invoker.ret[1]) =>
    invoker.ret[2] = IF ResultLines = <<>> THEN <<>>
                     ELSE ResultLines[Len(ResultLines)].result

C21_Witness ==
  /\ invoker.pc = "returned"
  /\ invoker.ret[1]
  /\ Len(ResultLines) >= 2
  /\ ResultLines[1].result # ResultLines[Len(ResultLines)].result
  /\ invoker.ret[2] = ResultLines[Len(ResultLines)].result

\* C22: reading a line that is not JSON leaves the session id and the
\* output as they were, appends the line to the transcript and leaves the
\* invocation running, wherever the line stands in the stream.
C22_NonJsonIgnored ==
  [][ ( /\ invoker.pc = "streaming"
        /\ invoker.stdout # <<>>
        /\ Head(invoker.stdout).kind = "text"
        /\ invoker'.stdout # invoker.stdout )
      => ( /\ invoker'.session_id = invoker.session_id
           /\ invoker'.output_text = invoker.output_text
           /\ invoker'.jsonl = Append(invoker.jsonl, Head(invoker.stdout))
           /\ invoker'.pc = "streaming"
           /\ invoker'.ret = invoker.ret ) ]_vars

C22_Witness ==
  /\ invoker.pc = "returned"
  /\ invoker.ret = <<TRUE, <<"Success">>, <<"session-2">>>>
  /\ Len(invoker.jsonl) = 3
  /\ invoker.jsonl[1].kind = "object"
  /\ invoker.jsonl[2].kind = "text"
  /\ invoker.jsonl[3].kind = "text"

\* t ends with the elements of s.
EndsWith(t, s) ==
  /\ Len(s) <= Len(t)
  /\ SubSeq(t, Len(t) - Len(s) + 1, Len(t)) = s

C24_TimeoutBoundsStream ==
  (invoker.pc = "streaming" /\ invoker.expired)
    ~> (invoker.pc = "returned" /\ invoker.ret = <<FALSE, TimeoutError, None>>)

\* C25: the transcript always holds exactly the lines read so far, in
\* their order; once the invocation has returned with a session id
\* captured, the transcript is closed under the name of that session id and
\* holds the lines read.
C25_TranscriptRoundTrip ==
  /\ invoker.jsonl = invoker.all_lines
  /\ (invoker.pc = "returned" /\ invoker.session_id # None) =>
       /\ invoker.jsonl_name = FinalJsonl(invoker.session_id)
       /\ invoker.jsonl_name # TempJsonl
       /\ ~invoker.jsonl_open

----------------------------------------------------------------------------
(* Claims about the Comment Parser *)

\* The plan-only phrasings, in the order they are looked for; "don't
\* implement" is taken with or without its apostrophe.
Phrasings ==
  << <<"-", "-", "p", "l", "a", "n", "-", "o", "n", "l", "y">>,
     <<"p", "l", "a", "n", " ", "o", "n", "l", "y">>,
     <<"d", "o", "n", "'", "t", " ", "i", "m", "p", "l", "e", "m", "e", "n", "t">>,
     <<"d", "o", "n", "t", " ", "i", "m", "p", "l", "e", "m", "e", "n", "t">>,
     <<"n", "o", " ", "i", "m", "p", "l", "e", "m", "e", "n", "t", "a", "t", "i", "o", "n">>,
     <<"s", "k", "i", "p", " ", "i", "m", "p", "l", "e", "m", "e", "n", "t", "a", "t", "i", "o", "n">>,
     <<"p", "l", "a", "n", "n", "i", "n", "g", " ", "o", "n", "l", "y">> >>

Least(S) == CHOOSE x \in S : \A y \in S : x <= y

\* The places of the text where pat stands, in any letter case.
Places(text, pat) ==
  LET low == lower(text) IN { i \in 1..Len(text) : startswithAt(low, pat, i) }

\* The phrasings the text contains.
PhrasingsIn(text) == { k \in 1..Len(Phrasings) : Places(text, Phrasings[k]) # {} }

\* The text without the stretches pat, in any letter case, from place i on.
RECURSIVE WithoutAt(_, _, _, _)
WithoutAt(text, low, pat, i) ==
  IF i > Len(text) THEN <<>>
  ELSE IF startswithAt(low, pat, i) THEN WithoutAt(text, low, pat, i + Len(pat))
  ELSE <<text[i]>> \o WithoutAt(text, low, pat, i + 1)

Without(text, pat, i) == WithoutAt(text, lower(text), pat, i)

\* The selector written at the head of the text, None if there is none.
WrittenSelector(text) ==
  IF \E s \in Selectors : 1 \in Places(text, s)
  THEN SubSeq(text, 1, Len(CHOOSE s \in Selectors : 1 \in Places(text, s)))
  ELSE None

\* The command and the remaining text of a text that has no plan-only
\* phrasing left: decided at the first trigger word that a blank follows;
\* when no trigger word is followed by a blank, there is no command and the
\* remaining text is the text without its trigger words.
Extraction(text) ==
  LET before_blank == { i \in Places(text, SDLC) :
                          i + Len(SDLC) <= Len(text) /\ text[i + Len(SDLC)] = " " }
  IN IF before_blank # {}
     THEN LET after == lstrip(SubSeq(text, Least(before_blank) + Len(SDLC), Len(text)))
              sel == WrittenSelector(after)
          IN IF sel # None
             THEN <<sel, strip(SubSeq(after, Len(sel) + 1, Len(after)))>>
             ELSE <<None, strip(after)>>
     ELSE <<None, strip(Without(text, SDLC, 1))>>

ParsedPlain ==
  /\ parser.pc = "returned"
  /\ Places(join_split(parser.comment_body), SDLC) # {}
  /\ PhrasingsIn(join_split(parser.comment_body)) = {}

\* C26 as stated: when the trigger word followed by a selector stands in
\* the comment, the command is that selector and the remaining text has
\* neither the trigger word nor the selector; when no selector follows the
\* trigger word, there is no command and the remaining text is what stands
\* after the trigger word.
C26_AfterTheKeyword ==
  ParsedPlain =>
    LET normal == join_split(parser.comment_body)
        followed == { s \in Selectors : Places(normal, SDLC \o <<" ">> \o s) # {} }
    IN IF followed # {}
       THEN /\ lower(parser.ret[1]) \in followed
            /\ Places(parser.ret[2], SDLC) = {}
            /\ Places(parser.ret[2], lower(parser.ret[1])) = {}
       ELSE /\ parser.ret[1] = None
            /\ parser.ret[2] =
                 strip(SubSeq(normal, Least(Places(normal, SDLC)) + Len(SDLC), Len(normal)))

\* C26, amended: the first trigger word followed by a blank decides.  If a
\* selector is written right after it, the command is that selector as
\* written and the remaining text is what follows the selector; if not,
\* there is no command and the remaining text is what follows the trigger
\* word.  When no trigger word is followed by a blank, there is no command
\* and the remaining text is the whole comment without its trigger words,
\* the text before them included.
C26_CommandExtraction ==
  ParsedPlain =>
    <<parser.ret[1], parser.ret[2]>> = Extraction(join_split(parser.comment_body))

C26_Witness ==
  /\ parser.pc = "returned"
  /\ parser.comment_body = <<"p", "l", "e", "a", "s", "e", " ", "f", "i", "x", " ", "s", "d", "l", "c">>
  /\ parser.ret = <<None, <<"p", "l", "e", "a", "s", "e", " ", "f", "i", "x">>, FALSE>>

----------------------------------------------------------------------------
(* Claims about the tunnel and the webhooks *)

\* The registrations that point at url.
Registrations(url) == { i \in 1..Len(tunnel.hooks) : tunnel.hooks[i].url = url }

LogPlaces(op) == { i \in 1..Len(tunnel.log) : tunnel.log[i].op = op }

\* C28: when ensure is called right after a call for the same URL that
\* returned True, with nothing changed in between, exactly one registration
\* for the URL exists afterwards, and the second call has deleted nothing
\* and created nothing.
C28_EnsureIdempotent ==
  (tunnel.op = "start" /\ tunnel.ensured /\ tunnel.second) =>
    /\ Cardinality(Registrations(tunnel.url)) = 1
    /\ LogPlaces("delete") = {}
    /\ LogPlaces("create") = {}

\* C29: at most one registration points at the current URL of the tunnel;
\* when ensure has created a registration, every deletion came before the
\* creation and no registration of the vendor's domain with another URL is
\* left beside the new one.
C29_OneRegistrationNoStale ==
  /\ Cardinality(Registrations(tunnel.url)) <= 1
  /\ (tunnel.op = "start" /\ \E i \in LogPlaces("create") : tunnel.log[i].ok) =>
       /\ \A i \in LogPlaces("delete"), j \in LogPlaces("create") : i < j
       /\ \A i \in 1..Len(tunnel.hooks) :
            IsVendorHook(tunnel.hooks[i]) => tunnel.hooks[i].url = tunnel.url

\* C30: the command "watcher --remove" removes the webhooks of the vendor's
\* domain and then tries to delete the tunnel, for both providers.
C30_RemoveThenDelete ==
  tunnel.op = "remove" =>
    \E i \in LogPlaces("remove_devtunnel_webhooks"), j \in LogPlaces("delete_devtunnel") :
      /\ tunnel.log[i].ok
      /\ i < j

----------------------------------------------------------------------------
(* C31: stopping the server *)

\* The kinds of the calls the last operation made.
LogOps == { tunnel.log[i].op : i \in 1..Len(tunnel.log) }

\* C31: a step that stops a watcher server (SIGINT, SIGTERM or the end of
\* the server) leaves every webhook registration and the tunnel as they
\* were, its only calls being terminate and kill on the host process; and
\* a step after which the tunnel exists no more is a --remove invocation.
C31_StopOnlyStopsHost ==
  [][ /\ (tunnel.server # "off" /\ tunnel'.server = "off") =>
           /\ tunnel'.hooks = tunnel.hooks
           /\ tunnel'.exists = tunnel.exists
           /\ tunnel'.host = "none"
           /\ \A i \in 1..Len(tunnel'.log) : tunnel'.log[i].op \in {"terminate", "kill"}
      /\ (tunnel.exists /\ ~tunnel'.exists) => tunnel'.op = "remove"
    ]_vars

\* A GitLab server with a running host and a webhook of the tunnel has been
\* stopped: the host was terminated, the webhook and the tunnel are there.
C31_Witness ==
  /\ tunnel.op = "stop"
  /\ tunnel.provider = "gitlab"
  /\ "terminate" \in LogOps
  /\ tunnel.exists
  /\ \E i \in 1..Len(tunnel.hooks) : tunnel.hooks[i].url = tunnel.url

----------------------------------------------------------------------------
(* C32: the checks before the server *)

\* The places of the calls of op in the calls of the last operation.
CallsOf(op) == { i \in 1..Len(tunnel.log) : tunnel.log[i].op = op }

CallSucceeded(op) == \E i \in CallsOf(op) : tunnel.log[i].ok

\* The user is authenticated: the one check succeeded, or it failed and was
\* followed by one login that succeeded and a second check that succeeded.
AuthenticatedBeforeServer ==
  LET checks == CallsOf("check_devtunnel_authenticated")
      logins == CallsOf("login_devtunnel")
  IN \/ /\ Cardinality(checks) = 1
        /\ logins = {}
        /\ \A i \in checks : tunnel.log[i].ok
     \/ /\ Cardinality(checks) = 2
        /\ Cardinality(logins) = 1
        /\ \E i \in checks, j \in logins, k \in checks :
             /\ i < j /\ j < k
             /\ ~tunnel.log[i].ok /\ tunnel.log[j].ok /\ tunnel.log[k].ok

PreconditionsMet ==
  /\ CallSucceeded("check_devtunnel_installed")
  /\ AuthenticatedBeforeServer
  /\ CallSucceeded("show_devtunnel") \/ CallSucceeded("create_devtunnel")
  /\ CallSucceeded("get_webhook_url_from_tunnel")

\* C32: when the watcher command has handed over to the server, the tunnel
\* CLI was found installed, the user authenticated (directly, or by one
\* login and a successful second check), the tunnel shown or created and
\* the webhook URL computed; when one of these failed the command has
\* exited with code 1 and no server is started.
C32_StartupPreconditions ==
  /\ tunnel.op = "watcher" =>
       PreconditionsMet /\ tunnel.exists /\ tunnel.server = "starting" /\ tunnel.code = 0
  /\ tunnel.op = "exit" =>
       ~PreconditionsMet /\ tunnel.server = "off" /\ tunnel.host = "none" /\ tunnel.code = 1

\* The server is about to start after an automatic login and the creation
\* of the tunnel.
C32_Witness ==
  /\ tunnel.op = "watcher"
  /\ tunnel.server = "starting"
  /\ CallSucceeded("login_devtunnel")
  /\ CallSucceeded("create_devtunnel")

----------------------------------------------------------------------------
(* C33: the plan file located from the listing *)

\* A line of a new (untracked or added) markdown file that lies in specs/
\* or in ai-specs/.
IsNewPlanLine(line) ==
  /\ line.xy \in {"??", "A "}
  /\ \/ line.path[1] = "specs/"
     \/ line.path[1] = "ai-" /\ line.path[2] = "specs/"
  /\ line.path[Len(line.path)] = ".md"

\* C33: when git status fails, locate_plan_file returns no path and the
\* error of the command; otherwise it returns the path of the first line
\* of the listing that is a new markdown file of specs/ or ai-specs/, and
\* 'No plan file found' when the listing has no such line.
C33_FirstNewPlanFile ==
  locator.pc = "returned" =>
    IF ~locator.status_ok
    THEN locator.ret = <<None, <<"Git status failed: ", "stderr">>>>
    ELSE LET new_plans == SelectSeq(locator.lines, IsNewPlanLine)
         IN IF new_plans = <<>>
            THEN locator.ret = <<None, <<"No plan file found in git status">>>>
            ELSE locator.ret = <<new_plans[1].path, None>>

----------------------------------------------------------------------------
(* C34: the sub-steps of the commit step *)

CommitSubSteps == <<"git add", "aipr commit", "git commit">>

\* C34: the sub-steps run are a beginning of stage-all, generate-message,
\* create-commit, none but the last of them having failed; the working tree
\* is staged only when staging succeeded and a commit exists only when the
\* third sub-step succeeded; the step returns (True, None) when all three
\* succeeded and (False, error detail) otherwise.
C34_CommitSubSteps ==
  committer.pc = "returned" =>
    LET calls == committer.calls
        all_ok == Len(calls) = 3 /\ \A i \in 1..3 : calls[i].ok
    IN /\ Len(calls) \in 1..3
       /\ \A i \in 1..Len(calls) : calls[i].cmd = CommitSubSteps[i]
       /\ \A i \in 1..(Len(calls) - 1) : calls[i].ok
       /\ (commits # <<>>) <=> all_ok
       /\ ~calls[1].ok => committer.tree = committer.lines
       /\ (calls[1].ok /\ ~all_ok) => committer.tree = Stage(committer.lines)
       /\ all_ok => committer.tree = <<>> /\ commits[1].files = Paths(committer.lines)
       /\ IF all_ok THEN committer.ret = <<TRUE, None>>
          ELSE committer.ret[1] = FALSE /\ committer.ret[2] # None

\* Message generation failed on a tree of two changes: they are staged and
\* no commit exists.
C34_Witness ==
  /\ committer.pc = "returned"
  /\ Len(committer.lines) = 2
  /\ Len(committer.calls) = 2
  /\ ~committer.calls[2].ok
  /\ commits = <<>>
  /\ committer.ret[1] = FALSE

----------------------------------------------------------------------------
(* C35: webhooks of other services *)

\* The pieces with which the path of a URL begins.
PathPieces == {"/gh-webhook", "/hook", "/to/"}

\* The host of the URL lies in the vendor's domain: "devtunnels.ms" ends
\* the part of the URL before its path.
InVendorDomain(url) ==
  \E i \in 1..Len(url) :
    /\ url[i] = "devtunnels.ms"
    /\ \A j \in 1..(i - 1) : url[j] \notin PathPieces
    /\ i = Len(url) \/ url[i + 1] \in PathPieces

OtherHooks(hooks) == SelectSeq(hooks, LAMBDA h : ~InVendorDomain(h.url))

\* C35: no step of the watcher (ensure at the start of the server, remove
\* on --remove) deletes or changes a webhook whose URL lies outside the
\* vendor's domain.
C35_OtherHooksKept ==
  [][OtherHooks(tunnel'.hooks) = OtherHooks(tunnel.hooks)]_vars

----------------------------------------------------------------------------
(* C36: whose plan file a run implements *)

\* C36: the plan file a run hands to IMPLEMENT and to OPEN_REQUEST is the
\* one its own BUILD_PLAN step wrote, never one that an earlier run left in
\* the working tree or that another run wrote.
C36_OwnPlanFile ==
  \A r \in Runs : \A i \in 1..Len(trace[r]) :
    (IsStep(trace[r][i]) /\ trace[r][i].name \in {"implement", "open_request"}) =>
      trace[r][i].text = PlanPath(r)

----------------------------------------------------------------------------
(* C37: the command of a run *)

\* C37: the command a run hands to CREATE_BRANCH and to BUILD_PLAN, whether
\* it was classified or written in the trigger comment, is one of the three
\* selectors /feature, /bug, /chore in lower case.
C37_CommandIsSelector ==
  \A r \in Runs : \A i \in 1..Len(trace[r]) :
    (IsStep(trace[r][i]) /\ trace[r][i].name \in {"create_branch", "build_plan"}) =>
      trace[r][i].text \in Selectors

----------------------------------------------------------------------------
(* C38: requests handled at the same time *)

\* The issue an event is about.
EventIssue(ev) ==
  IF ev.provider = "github" THEN ev.issue_number
  ELSE IF ev.object_kind = "issue" THEN ev.iid ELSE ev.issue_iid

\* What a run does and has done.
Progress(r) == <<pc[r], trace[r], command[r], branch_name[r], plan_file[r], result[r],
                 classify_call[r]>>

\* C38: every run started by a handler holds the issue, the run id, the
\* explicit command, the plan-only flag and the project path of its own
\* event, which are the values of that event's acceptance response, and no
\* other run has its id; its arguments never change once it is started; a
\* step changes the progress of one run at most, and a step of a handler
\* changes the progress of no run but the one it starts.
C38_OwnParameters ==
  /\ [](\A q \in Runs :
          /\ pc[q] # "off" =>
               /\ args[q].provider = request[q].provider
               /\ args[q].adw_id = AdwIdOf[q]
               /\ \A o \in Runs \ {q} : args[o].adw_id # args[q].adw_id
               /\ args[q].issue_number = EventIssue(request[q])
               /\ args[q].explicit_command = decision[q].explicit_command
               /\ args[q].plan_only = decision[q].plan_only
               /\ request[q].provider = "gitlab" =>
                    args[q].project_path = IF request[q].project_path # <<>>
                                           THEN request[q].project_path
                                           ELSE OriginProjectPath
          /\ reply[q].status = "accepted" =>
               /\ reply[q].issue = args[q].issue_number
               /\ reply[q].adw_id = args[q].adw_id
               /\ request[q].provider = "gitlab" =>
                    /\ reply[q].plan_only = args[q].plan_only
                    /\ reply[q].command = IF args[q].explicit_command = None
                                          THEN <<"auto-classify">>
                                          ELSE args[q].explicit_command)
  /\ [][ /\ \A q \in Runs : pc[q] # "off" => args'[q] = args[q]
         /\ \A q, o \in Runs :
              (q # o /\ Progress(q)' # Progress(q)) =>
                 (Progress(o)' = Progress(o) /\ hpc'[o] = hpc[o])
       ]_vars

\* Two runs started by different events are both under way, one in
\* plan-only mode for one issue and one in full mode for another, and both
\* handlers have returned.
C38_Witness ==
  /\ \A q \in Runs : reply[q].status = "accepted" /\ trace[q] # <<>>
  /\ args["r1"].plan_only /\ ~args["r2"].plan_only
  /\ args["r1"].issue_number # args["r2"].issue_number
  /\ args["r1"].explicit_command # args["r2"].explicit_command

----------------------------------------------------------------------------
(* C39: one state machine for both providers *)

\* The outcomes of a run: the precondition check and the steps it called,
\* each with the error it returned.
Outcomes(r) == SelectSeq(trace[r], LAMBDA e : e.ev \in {"check", "step"})

LastStepOf(plan_only) == IF plan_only THEN "commit" ELSE "open_request"

PipelineOf(plan_only) ==
  IF plan_only THEN <<"determine_command", "create_branch", "build_plan", "commit">>
  ELSE StepOrder

\* What the workflow does on a sequence of outcomes, whatever the provider:
\* each call and the comments posted after it.
RECURSIVE MachineEvents(_, _)
MachineEvents(outcomes, plan_only) ==
  IF outcomes = <<>> THEN <<>>
  ELSE LET e == Head(outcomes)
           call == [ev |-> e.ev, name |-> e.name]
           failure == [ev |-> "comment", name |-> "failure"]
           progress == [ev |-> "comment", name |-> "progress"]
           completed == [ev |-> "comment", name |-> "completed"]
           comments == IF Truthy(e.err) THEN <<failure>>
                       ELSE IF e.ev = "check" THEN <<>>
                       ELSE IF e.name = LastStepOf(plan_only) THEN <<progress, completed>>
                       ELSE <<progress>>
       IN <<call>> \o comments \o MachineEvents(Tail(outcomes), plan_only)

\* The result of the workflow after these outcomes.
MachineResult(outcomes, plan_only) ==
  IF outcomes = <<>> THEN NoResult
  ELSE LET e == outcomes[Len(outcomes)]
       IN IF Truthy(e.err) THEN Return(FALSE, e.err)
          ELSE IF e.ev = "step" /\ e.name = LastStepOf(plan_only) THEN Return(TRUE, None)
          ELSE NoResult

Observed(r) == [i \in 1..Len(trace[r]) |-> [ev |-> trace[r][i].ev, name |-> trace[r][i].name]]

\* C39: a GitHub run and a GitLab run are runs of one state machine: in the
\* same mode and on the same outcomes of its steps a run of either provider
\* has called the same steps, posted the same success and failure comments
\* at the same points, and returned the same result.
C39_SameStateMachine ==
  \A r \in Runs :
    pc[r] \notin {"off", "idle"} =>
      /\ Observed(r) = MachineEvents(Outcomes(r), args[r].plan_only)
      /\ result[r] = MachineResult(Outcomes(r), args[r].plan_only)
      /\ IsPrefix(StepNames(r), PipelineOf(args[r].plan_only))
      /\ pc[r] = "returned" <=> result[r].returned

====
